---- MODULE Spec2Model ----
(***************************************************************************)
(* Capture and distribution engine of macKinect-native.                    *)
(*                                                                         *)
(*   SpecDevice   one device handle (FreenectV1Device or FreenectV2Device) *)
(*                with its frame mailbox and the native driver streams     *)
(*   SpecBackend  one backend (FreenectV1Backend or FreenectV2Backend):    *)
(*                probe, listDevices, openDevice against a USB bus         *)
(*   SpecQueue    the DAL plug-in's sample queue, its producer loop and    *)
(*                the host that drains it                                  *)
(*   SpecMailbox  a streaming handle while the driver delivers frames      *)
(*   SpecRace     stop() and update() of one Gen1 handle on two threads,   *)
(*                statement by statement                                   *)
(*   SpecControls the hardware-control setters of a Gen1 handle            *)
(*   SpecExport   the point-list export of the Gen1 control centre         *)
(***************************************************************************)
EXTENDS Integers, Sequences, FiniteSets, TLC

\* ------------------------------------------------------------------ bounds
\* driver frame deliveries (callbacks, bundles) in one run
MaxWrites == 2
\* units attached to the bus at a time
MaxUnits == 2
\* frames the producer loop makes between two starts of the producer
MaxFrames == 9
\* clients of the DAL stream at a time
MaxClients == 2
\* control calls forwarded to the driver in one run
MaxSets == 2
\* pixels of the frame the capture export walks
MaxPixels == 3
\* passes of the polling loop of one preview()
MaxPolls == 3
\* host threads that call into the DAL plug-in at the same time
MaxHostThreads == 2

\* ------------------------------------------------------- program constants
kWidth == 640
kHeight == 480
kQueueCapacity == 8

VARIABLES
  \* ---- device handle (backends/freenect_v1_backend.cpp, freenect_v2_backend.cpp)
  gen,               \* "V1" | "V2": which adapter the handle is
  dev_,              \* "null" | "open": the native session pointer
  audio_supported_,
  running_,
  depth_started_,
  video_started_,
  audio_started_,
  audio_enabled_,
  requested_stream_,
  active_stream_,
  selected_stream_,
  frame_,
  has_new_frame_,
  \* ---- native driver, device side
  native,            \* [depth, video, audio: is the stream running; fmt: video format]
  writes,            \* number of frames the driver has delivered so far
  \* ---- what a caller / a recording test double observes
  lastOp,            \* the operation that ran last
  ret,               \* its return value
  out_frame,         \* the out parameter of the last getFrame()
  calls,             \* native calls the last operation issued, in order
  depthStarts,       \* successful native depth starts since the last start() went past its early return
  depthStops,        \* native depth stops since then
  startedOk,         \* that start() returned success
  seqToks,           \* the frames of the current run of deliveries with no getFrame() in between
  drained,           \* getFrame() was called after the last delivery
  lastTok,           \* the last frame delivered
  lastDepthTok,      \* the last depth frame delivered
  lastVideoTok,      \* the last video frame delivered
  atClose,           \* the streams running in the driver when the session was last closed
  audio_arg,         \* the argument of the last setAudioEnabled()
  events_ok          \* whether the driver's event processing of the last update() succeeded

devVars == <<gen, dev_, audio_supported_, running_, depth_started_, video_started_,
             audio_started_, audio_enabled_, requested_stream_, active_stream_,
             selected_stream_, frame_, has_new_frame_, native, writes, lastOp, ret,
             out_frame, calls, depthStarts, depthStops, startedOk, seqToks,
             drained, lastTok, lastDepthTok, lastVideoTok, atClose, audio_arg, events_ok>>

VARIABLES
  \* ---- backend (FreenectV1Backend, FreenectV2Backend)
  backend,           \* "V1" | "V2"
  ctx_,              \* "null" | "ok": the native driver context
  has_audio_firmware_,
  \* ---- the USB bus
  bus,               \* the attached units, by enumeration position
  \* ---- what the caller and the enumerator's test double observe
  bop,               \* the backend operation that ran last
  probe_result,      \* ProbeResult of the last probe()
  devices,           \* the list the last listDevices() returned
  sleeps,            \* sleep_for calls of the last operation
  listed,            \* what freenect_list_device_attributes / enumerateDevices answered, per call
  counted,           \* what freenect_num_devices answered, per call
  id,                \* the identifier given to openDevice
  outer,             \* outer attempts of openDevice completed
  opened,            \* the handle openDevice returned: the unit its session is on
  tried,             \* the native open calls of the last outer attempt, in order
  opening            \* openDevice is between two outer attempts

backendVars == <<backend, ctx_, has_audio_firmware_, bus, bop, probe_result, devices,
                 sleeps, listed, counted, id, outer, opened, tried, opening>>

VARIABLES
  \* ---- DAL plug-in (dal_plugin/KinectCameraDALPlugin.cpp)
  gSampleQueue,      \* "null" | "created": the CMSimpleQueue handed to the host
  items,             \* the frame indices in the queue, oldest first
  gQueueAlteredProc, \* "null" | "proc"
  gProducerRunning,
  gRunningClients,
  gFrameCounter,
  producer,          \* where the producer thread is: "none" | "head" | "evict" | "enqueue";
                     \* "terminated": a joinable std::thread was assigned to, the process is gone
  sample,            \* the frame index of the sample buffer the producer holds, -1: none
  device_,           \* "null" | "streaming": the sensor handle of gKinectSource
  \* ---- what a test double of the queue observes of the last push
  push,
  host_call,         \* the entry point the host called last, "none" before any
  \* ---- StartStream and StopStream called from several host threads
  host               \* per host thread: the statement it is at (pc) and its local `previous`

queueVars == <<gSampleQueue, items, gQueueAlteredProc, gProducerRunning, gRunningClients,
               gFrameCounter, producer, sample, device_, push, host_call, host>>

\* ---- the capture export of the Gen1 control centre (control_center_v1.cpp)
VARIABLES
  g_dev,             \* "null" or "open": the device of the control centre
  depth_mm,          \* the depth buffer handed to the export, index -> millimetres
  ply,               \* the lines of scan.ply, <<>> while no file was written
  valid_points,      \* what SavePointCloudPly returned, -1 before any call
  \* ---- the colour buffers of the control centre, shared by the driver thread
  \* ---- (freenect_threadfunc and the callbacks it runs) and the render thread
  g_rgb_back,        \* the buffer the driver fills
  g_rgb_mid,         \* the newest complete frame
  g_rgb_front,       \* the frame being drawn
  g_got_rgb,
  g_got_depth,
  g_frame_mutex,     \* "free" | "driver" | "render": who holds it
  g_current_video_format,
  g_requested_video_format,
  video_buf,         \* the buffer freenect_set_video_buffer gave the driver last
  cb_rgb,            \* the argument rgb of the colour callback in flight, "none" outside
  assert_ok,         \* no assert in rgb_cb has failed
  pcDriver,          \* where the driver thread is
  pcRender           \* where the render thread is

exportVars == <<g_dev, depth_mm, ply, valid_points,
               g_rgb_back, g_rgb_mid, g_rgb_front, g_got_rgb, g_got_depth, g_frame_mutex,
               g_current_video_format, g_requested_video_format, video_buf, cb_rgb,
               assert_ok, pcDriver, pcRender>>

\* ---- stop() and update() of one Gen1 handle called from two threads
VARIABLES
  pcStop,            \* the statement the thread inside stop() is at
  pcUpdate,          \* the statement the thread inside update() is at
  frame_mutex_       \* "free", or the function that holds the mailbox mutex

raceVars == <<pcStop, pcUpdate, frame_mutex_>>

\* ---- the hardware controls of a Gen1 handle
VARIABLES
  wanted,            \* the last control the caller set on the open handle: [op, arg]
  ctl_last,          \* the last control call forwarded to the driver: [fn, value]
  ctl_sends          \* how many control calls were forwarded so far

ctlVars == <<wanted, ctl_last, ctl_sends>>

\* ---- the PreviewResult of the last preview()
VARIABLES
  result             \* [polls, color_frames, depth_frames, frames]: what the driver delivered in
                     \* each pass of the polling loop, and the two counts reported

\* the variable groups added beside the three above
asideVars == <<exportVars, raceVars, ctlVars, result>>

vars == <<devVars, backendVars, queueVars, asideVars>>

StreamKind == {"kRgb", "kIr", "kDepth"}

FrameData == [rgb |-> 0, depth |-> 0, ir |-> 0, width |-> 0, height |-> 0, timestamp |-> 0]

\* a default-constructed PreviewResult: nothing polled, nothing counted; frames:
\* the bundle the last waitForNewFrame of a Gen2 update() handed over
NoResult == [polls |-> <<>>, color_frames |-> 0, depth_frames |-> 0,
             frames |-> [Color |-> "absent", Ir |-> "absent", Depth |-> "absent"]]

\* What the native driver answers to the calls of one operation: libfreenect is
\* outside the repository, every call of it may succeed or fail.
Outcomes == [depthValid : BOOLEAN, setDepthOk : BOOLEAN, videoValid : BOOLEAN,
             setVideoOk : BOOLEAN, startVideoOk : BOOLEAN, startDepthOk : BOOLEAN,
             startAudioOk : BOOLEAN]

\* An operation gives up at the first call that fails, so the answers to consider
\* are those with at most one failing call among the calls that make it give up.
Failing(o) == {c \in {"depthValid", "setDepthOk", "videoValid", "setVideoOk",
                      "startVideoOk", "startDepthOk"} : ~o[c]}
StartOutcomes == {o \in Outcomes : Cardinality(Failing(o)) <= 1}
VideoOutcomes == {o \in StartOutcomes : o.depthValid /\ o.setDepthOk /\ o.startDepthOk
                                          /\ o.startAudioOk}
AudioOutcomes == {o \in Outcomes : Failing(o) = {}}

\* The fields an operation of the handle reads and writes, as one record; calls
\* collects the native calls it issues, dstart and dstop count depth starts/stops.
Handle == [running |-> running_, depth |-> depth_started_, video |-> video_started_,
           audio |-> audio_started_, audio_enabled |-> audio_enabled_,
           active |-> active_stream_, native |-> native, calls |-> <<>>,
           ok |-> TRUE, dstart |-> 0, dstop |-> 0]

Call(s, name) == [s EXCEPT !.calls = Append(@, name)]

Install(s) ==
  /\ running_' = s.running
  /\ depth_started_' = s.depth
  /\ video_started_' = s.video
  /\ audio_started_' = s.audio
  /\ audio_enabled_' = s.audio_enabled
  /\ active_stream_' = s.active
  /\ native' = s.native
  /\ calls' = s.calls

mailboxVars == <<frame_, has_new_frame_, writes, out_frame, seqToks, drained, lastTok,
                 lastDepthTok, lastVideoTok>>
sessionVars == <<depthStarts, depthStops, startedOk>>
handleVars == <<running_, depth_started_, video_started_, audio_started_, audio_enabled_,
                active_stream_, native>>
identVars == <<gen, dev_, audio_supported_>>
\* what an operation on a live handle leaves alone
notDevice == <<backendVars, queueVars, asideVars, atClose, audio_arg, events_ok>>

\* ApplyVideoMode as it would be if a mode switch restarted the depth stream too
ApplyVideoMode_restartsDepth(s, o) ==
  IF dev_ = "null" \/ ~o.videoValid THEN [s EXCEPT !.ok = FALSE]
  ELSE
    LET format == IF requested_stream_ = "kIr" THEN "IR_8BIT" ELSE "RGB"
        s0 == IF s.depth
                THEN [Call(Call(s, "stop_depth"), "start_depth")
                        EXCEPT !.dstop = @ + 1, !.dstart = @ + 1]
                ELSE s
        s1 == IF s0.video
                THEN Call([s0 EXCEPT !.native.video = FALSE, !.video = FALSE], "stop_video")
                ELSE s0
    IN
    IF ~o.setVideoOk THEN [Call(s1, "set_video_mode") EXCEPT !.ok = FALSE]
    ELSE
      LET s2 == Call([s1 EXCEPT !.native.fmt = format], "set_video_mode") IN
      IF ~o.startVideoOk THEN [Call(s2, "start_video") EXCEPT !.ok = FALSE]
      ELSE [Call(s2, "start_video") EXCEPT !.native.video = TRUE, !.video = TRUE,
                                            !.active = requested_stream_, !.ok = TRUE]

\* FreenectV1Device::ApplyVideoMode
ApplyVideoMode(s, o) ==
  IF dev_ = "null" THEN [s EXCEPT !.ok = FALSE]
  ELSE
    LET format == IF requested_stream_ = "kIr" THEN "IR_8BIT" ELSE "RGB" IN
    IF ~o.videoValid THEN [s EXCEPT !.ok = FALSE]
    ELSE
      LET s1 == IF s.video
                  THEN Call([s EXCEPT !.native.video = FALSE, !.video = FALSE], "stop_video")
                  ELSE s
      IN
      IF ~o.setVideoOk THEN [Call(s1, "set_video_mode") EXCEPT !.ok = FALSE]
      ELSE
        LET s2 == Call([s1 EXCEPT !.native.fmt = format], "set_video_mode") IN
        IF ~o.startVideoOk THEN [Call(s2, "start_video") EXCEPT !.ok = FALSE]
        ELSE [Call(s2, "start_video") EXCEPT !.native.video = TRUE, !.video = TRUE,
                                              !.active = requested_stream_, !.ok = TRUE]

\* FreenectV1Device::setAudioEnabled; ok is its return value
setAudioEnabled(s, enabled, o) ==
  IF ~audio_supported_ THEN [s EXCEPT !.audio_enabled = FALSE, !.ok = FALSE]
  ELSE
    LET s1 == [s EXCEPT !.audio_enabled = enabled] IN
    IF dev_ = "null" \/ ~s1.running THEN [s1 EXCEPT !.ok = FALSE]
    ELSE
      LET s2 == IF enabled
                  THEN IF ~s1.audio
                         THEN IF o.startAudioOk
                                THEN Call([s1 EXCEPT !.native.audio = TRUE, !.audio = TRUE],
                                          "start_audio")
                                ELSE Call(s1, "start_audio")
                         ELSE s1
                  ELSE IF s1.audio
                         THEN Call([s1 EXCEPT !.native.audio = FALSE, !.audio = FALSE],
                                   "stop_audio")
                         ELSE s1
      IN [s2 EXCEPT !.ok = s2.audio]

\* FreenectV1Device::start past its early return; ok is its return value
V1Start(s, o) ==
  IF ~o.depthValid THEN [s EXCEPT !.ok = FALSE]
  ELSE IF ~o.setDepthOk THEN [Call(s, "set_depth_mode") EXCEPT !.ok = FALSE]
  ELSE
    LET s1 == ApplyVideoMode(Call(s, "set_depth_mode"), o) IN
    IF ~s1.ok THEN s1
    ELSE IF ~o.startDepthOk THEN [Call(s1, "start_depth") EXCEPT !.ok = FALSE]
    ELSE
      LET s2 == [Call(s1, "start_depth") EXCEPT !.native.depth = TRUE, !.depth = TRUE,
                                                 !.dstart = @ + 1]
          s3 == IF ~s2.video
                  THEN IF ~o.startVideoOk
                         THEN [Call(Call(s2, "start_video"), "stop_depth")
                                 EXCEPT !.native.depth = FALSE, !.depth = FALSE,
                                        !.dstop = @ + 1, !.ok = FALSE]
                         ELSE [Call(s2, "start_video")
                                 EXCEPT !.native.video = TRUE, !.video = TRUE]
                  ELSE s2
      IN
      IF ~s3.ok THEN s3
      ELSE
        LET s4 == [s3 EXCEPT !.running = TRUE]
            s5 == IF s4.audio_enabled THEN setAudioEnabled(s4, TRUE, o) ELSE s4
        IN [s5 EXCEPT !.ok = TRUE]

\* stop() as it would be if it tore the streams down in the order they started
V1Stop_depthFirst(s) ==
  LET s1 == IF s.depth
              THEN [Call(s, "stop_depth") EXCEPT !.native.depth = FALSE, !.depth = FALSE,
                                                 !.dstop = @ + 1]
              ELSE s
      s2 == IF s1.video
              THEN Call([s1 EXCEPT !.native.video = FALSE, !.video = FALSE], "stop_video")
              ELSE s1
      s3 == IF s2.audio
              THEN Call([s2 EXCEPT !.native.audio = FALSE, !.audio = FALSE], "stop_audio")
              ELSE s2
  IN [s3 EXCEPT !.running = FALSE, !.ok = TRUE]

\* FreenectV1Device::stop past its early returns
V1Stop(s) ==
  LET s1 == IF s.audio
              THEN Call([s EXCEPT !.native.audio = FALSE, !.audio = FALSE], "stop_audio")
              ELSE s
      s2 == IF s1.video
              THEN Call([s1 EXCEPT !.native.video = FALSE, !.video = FALSE], "stop_video")
              ELSE s1
      s3 == IF s2.depth
              THEN [Call(s2, "stop_depth") EXCEPT !.native.depth = FALSE, !.depth = FALSE,
                                                  !.dstop = @ + 1]
              ELSE s2
  IN [s3 EXCEPT !.running = FALSE, !.ok = TRUE]

\* the handle after a successful open(): which unit it reached is the backend's matter.
\* The caller that opens a handle of its own holds no PreviewResult any more.
OpenHandle ==
  /\ dev_ = "null"
  /\ lastOp' = "open"
  /\ \E ok \in BOOLEAN :
       /\ dev_' = IF ok THEN "open" ELSE "null"
       /\ ret' = ok
  /\ calls' = <<>>
  /\ result' = NoResult
  /\ UNCHANGED <<backendVars, queueVars, exportVars, raceVars, ctlVars, atClose, audio_arg,
                 events_ok, gen, audio_supported_, handleVars, requested_stream_,
                 selected_stream_, mailboxVars, sessionVars>>

\* start() as it would be without its early return on a running handle
FreenectV1Device_start_restarts ==
  /\ gen = "V1"
  /\ lastOp' = "start"
  /\ IF dev_ = "null"
       THEN /\ ret' = FALSE
            /\ calls' = <<>>
            /\ UNCHANGED <<handleVars, sessionVars>>
       ELSE \E o \in StartOutcomes :
              LET s == V1Start(Handle, o) IN
              /\ Install(s)
              /\ ret' = s.ok
              /\ depthStarts' = s.dstart
              /\ depthStops' = s.dstop
              /\ startedOk' = s.ok
  /\ UNCHANGED <<notDevice, identVars, requested_stream_, selected_stream_, mailboxVars>>

FreenectV1Device_start ==
  /\ gen = "V1"
  /\ lastOp' = "start"
  /\ IF dev_ = "null" \/ running_
       THEN /\ ret' = (dev_ /= "null")
            /\ calls' = <<>>
            /\ UNCHANGED <<handleVars, sessionVars>>
       ELSE \E o \in StartOutcomes :
              LET s == V1Start(Handle, o) IN
              /\ Install(s)
              /\ ret' = s.ok
              /\ depthStarts' = s.dstart
              /\ depthStops' = s.dstop
              /\ startedOk' = s.ok
  /\ UNCHANGED <<notDevice, identVars, requested_stream_, selected_stream_, mailboxVars>>

FreenectV1Device_stop ==
  /\ gen = "V1"
  /\ lastOp' = "stop"
  /\ IF dev_ = "null"
       THEN ret' = FALSE /\ calls' = <<>> /\ UNCHANGED <<handleVars, sessionVars>>
       ELSE IF ~running_
         THEN ret' = TRUE /\ calls' = <<>> /\ UNCHANGED <<handleVars, sessionVars>>
         ELSE LET s == V1Stop(Handle) IN
              /\ Install(s)
              /\ ret' = s.ok
              /\ depthStops' = depthStops + s.dstop
              /\ UNCHANGED <<depthStarts, startedOk>>
  /\ UNCHANGED <<notDevice, identVars, requested_stream_, selected_stream_, mailboxVars>>

\* update() as it would be if it did not look at the result of event processing
FreenectV1Device_update_ignoresEvents ==
  /\ gen = "V1"
  /\ lastOp' = "update"
  /\ IF ~running_
       THEN /\ ret' = FALSE /\ calls' = <<>> /\ events_ok' = TRUE
            /\ UNCHANGED <<handleVars, sessionVars>>
       ELSE \E o \in VideoOutcomes, eventsOk \in BOOLEAN :
              LET s1 == IF requested_stream_ /= active_stream_
                          THEN ApplyVideoMode(Handle, o)
                          ELSE Handle
                  s2 == Call(s1, "process_events")
              IN
              /\ Install(s2)
              /\ events_ok' = eventsOk
              /\ ret' = has_new_frame_
              /\ depthStarts' = depthStarts + s2.dstart
              /\ depthStops' = depthStops + s2.dstop
              /\ UNCHANGED startedOk
  /\ UNCHANGED <<backendVars, queueVars, asideVars, atClose, audio_arg, identVars,
                 requested_stream_, selected_stream_, mailboxVars>>

FreenectV1Device_update ==
  /\ gen = "V1"
  /\ lastOp' = "update"
  /\ IF ~running_
       THEN /\ ret' = FALSE /\ calls' = <<>> /\ events_ok' = TRUE
            /\ UNCHANGED <<handleVars, sessionVars>>
       ELSE \E o \in VideoOutcomes, eventsOk \in BOOLEAN :
              LET s1 == IF requested_stream_ /= active_stream_
                          THEN ApplyVideoMode(Handle, o)
                          ELSE Handle
                  s2 == Call(s1, "process_events")
              IN
              /\ Install(s2)
              /\ events_ok' = eventsOk
              /\ ret' = IF eventsOk THEN has_new_frame_ ELSE FALSE
              /\ depthStarts' = depthStarts + s2.dstart
              /\ depthStops' = depthStops + s2.dstop
              /\ UNCHANGED startedOk
  /\ UNCHANGED <<backendVars, queueVars, asideVars, atClose, audio_arg, identVars,
                 requested_stream_, selected_stream_, mailboxVars>>

\* getFrame() as it would be if it left the fresh flag set
FreenectV1Device_getFrame_keepsFresh ==
  /\ gen = "V1"
  /\ lastOp' = "getFrame"
  /\ IF ~has_new_frame_
       THEN ret' = FALSE /\ out_frame' = FrameData
       ELSE out_frame' = frame_ /\ ret' = TRUE
  /\ drained' = TRUE
  /\ calls' = <<>>
  /\ UNCHANGED <<notDevice, identVars, handleVars, requested_stream_, selected_stream_, sessionVars,
                 frame_, has_new_frame_, writes, seqToks, lastTok, lastDepthTok,
                 lastVideoTok>>

\* getFrame() as it would be if it handed out only frames that carry video
FreenectV1Device_getFrame_needsVideo ==
  /\ gen = "V1"
  /\ lastOp' = "getFrame"
  /\ IF ~has_new_frame_ \/ (frame_.rgb = 0 /\ frame_.ir = 0)
       THEN ret' = FALSE /\ out_frame' = FrameData /\ UNCHANGED <<frame_, has_new_frame_>>
       ELSE /\ out_frame' = frame_
            /\ has_new_frame_' = FALSE
            /\ ret' = TRUE
            /\ UNCHANGED frame_
  /\ drained' = TRUE
  /\ calls' = <<>>
  /\ UNCHANGED <<notDevice, identVars, handleVars, requested_stream_, selected_stream_, sessionVars,
                 writes, seqToks, lastTok, lastDepthTok, lastVideoTok>>

FreenectV1Device_getFrame ==
  /\ gen = "V1"
  /\ lastOp' = "getFrame"
  /\ IF ~has_new_frame_
       THEN ret' = FALSE /\ out_frame' = FrameData /\ UNCHANGED <<frame_, has_new_frame_>>
       ELSE /\ out_frame' = frame_
            /\ has_new_frame_' = FALSE
            /\ ret' = TRUE
            /\ UNCHANGED frame_
  /\ drained' = TRUE
  /\ calls' = <<>>
  /\ UNCHANGED <<notDevice, identVars, handleVars, requested_stream_, selected_stream_, sessionVars,
                 writes, seqToks, lastTok, lastDepthTok, lastVideoTok>>

FreenectV1Device_setStreamKind ==
  /\ gen = "V1"
  /\ lastOp' = "setStreamKind"
  /\ \E kind \in StreamKind : requested_stream_' = kind
  /\ ret' = TRUE
  /\ calls' = <<>>
  /\ UNCHANGED <<notDevice, identVars, handleVars, selected_stream_, mailboxVars, sessionVars>>

FreenectV1Device_setAudioEnabled ==
  /\ gen = "V1"
  /\ lastOp' = "setAudioEnabled"
  /\ \E enabled \in BOOLEAN, o \in AudioOutcomes :
       LET s == setAudioEnabled(Handle, enabled, o) IN
       /\ Install(s)
       /\ ret' = s.ok
       /\ audio_arg' = enabled
  /\ UNCHANGED <<backendVars, queueVars, asideVars, atClose, events_ok, identVars,
                 requested_stream_, selected_stream_, mailboxVars, sessionVars>>

\* OnDepthFrame as it would be if it refreshed the header but not the samples
DepthWrite_headerOnly(f, tok) ==
  [f EXCEPT !.width = kWidth, !.height = kHeight, !.timestamp = tok]

\* the frame_ a driver callback leaves: the header and the buffer of its stream
DepthWrite(f, tok) ==
  [f EXCEPT !.width = kWidth, !.height = kHeight, !.timestamp = tok, !.depth = tok]

\* OnVideoFrame as it would be if it left the timestamp of the frame alone
VideoWrite_noStamp(f, tok) ==
  LET h == [f EXCEPT !.width = kWidth, !.height = kHeight] IN
  IF active_stream_ = "kIr" THEN [h EXCEPT !.ir = tok] ELSE [h EXCEPT !.rgb = tok]

VideoWrite(f, tok) ==
  LET h == [f EXCEPT !.width = kWidth, !.height = kHeight, !.timestamp = tok] IN
  IF active_stream_ = "kIr" THEN [h EXCEPT !.ir = tok] ELSE [h EXCEPT !.rgb = tok]

OnDepthFrame ==
  /\ gen = "V1" /\ dev_ = "open" /\ native.depth
  /\ writes < MaxWrites
  /\ lastOp' = "OnDepthFrame"
  /\ writes' = writes + 1
  /\ frame_' = DepthWrite(frame_, writes + 1)
  /\ has_new_frame_' = TRUE
  /\ seqToks' = (IF drained THEN {} ELSE seqToks) \cup {writes + 1}
  /\ drained' = FALSE
  /\ lastTok' = writes + 1
  /\ lastDepthTok' = writes + 1
  /\ UNCHANGED <<notDevice, identVars, handleVars, requested_stream_, selected_stream_, sessionVars,
                 out_frame, lastVideoTok>>
  /\ ret' = TRUE
  /\ calls' = <<>>

OnVideoFrame ==
  /\ gen = "V1" /\ dev_ = "open" /\ native.video
  /\ writes < MaxWrites
  /\ lastOp' = "OnVideoFrame"
  /\ writes' = writes + 1
  /\ frame_' = VideoWrite(frame_, writes + 1)
  /\ has_new_frame_' = TRUE
  /\ seqToks' = (IF drained THEN {} ELSE seqToks) \cup {writes + 1}
  /\ drained' = FALSE
  /\ lastTok' = writes + 1
  /\ lastVideoTok' = writes + 1
  /\ UNCHANGED <<notDevice, identVars, handleVars, requested_stream_, selected_stream_, sessionVars,
                 out_frame, lastDepthTok>>
  /\ ret' = TRUE
  /\ calls' = <<>>

\* ---------------------------------------------------------- FreenectV2Device
\* What waitForNewFrame hands over: per stream, the frame is absent from the
\* bundle, present with no pixels, or present with its native size.
Bundles == [Color : {"absent", "empty", "full"}, Ir : {"absent", "empty", "full"},
            Depth : {"absent", "empty", "full"}]

\* the choice as it would be if the fallback tried depth before infrared
V2NextFrame_depthBeforeIr(b, tok) ==
  LET assign_rgb == b.Color = "full"
      assign_depth == b.Depth = "full"
      assign_ir == b.Ir = "full"
      rgb == [FrameData EXCEPT !.rgb = tok, !.width = 1920, !.height = 1080, !.timestamp = tok]
      depth == [FrameData EXCEPT !.depth = tok, !.width = 512, !.height = 424, !.timestamp = tok]
      ir == [FrameData EXCEPT !.ir = tok, !.width = 512, !.height = 424, !.timestamp = tok]
  IN
  IF selected_stream_ = "kRgb" /\ assign_rgb THEN rgb
  ELSE IF selected_stream_ = "kIr" /\ assign_ir THEN ir
  ELSE IF selected_stream_ = "kDepth" /\ assign_depth THEN depth
  ELSE IF assign_rgb THEN rgb
  ELSE IF assign_depth THEN depth
  ELSE IF assign_ir THEN ir
  ELSE FrameData

\* FreenectV2Device::update, lines 136-183: the frame_ it stores for bundle b, or
\* FrameData with timestamp 0 when nothing could be assigned
V2NextFrame(b, tok) ==
  LET assign_rgb == b.Color = "full"
      assign_depth == b.Depth = "full"
      assign_ir == b.Ir = "full"
      rgb == [FrameData EXCEPT !.rgb = tok, !.width = 1920, !.height = 1080, !.timestamp = tok]
      depth == [FrameData EXCEPT !.depth = tok, !.width = 512, !.height = 424, !.timestamp = tok]
      ir == [FrameData EXCEPT !.ir = tok, !.width = 512, !.height = 424, !.timestamp = tok]
  IN
  IF selected_stream_ = "kRgb" /\ assign_rgb THEN rgb
  ELSE IF selected_stream_ = "kIr" /\ assign_ir THEN ir
  ELSE IF selected_stream_ = "kDepth" /\ assign_depth THEN depth
  ELSE IF assign_rgb THEN rgb
  ELSE IF assign_ir THEN ir
  ELSE IF assign_depth THEN depth
  ELSE FrameData

FreenectV2Device_start ==
  /\ gen = "V2"
  /\ lastOp' = "start"
  /\ IF dev_ = "null" \/ running_
       THEN /\ ret' = (dev_ /= "null")
            /\ calls' = <<>>
            /\ UNCHANGED <<running_, native, startedOk>>
       ELSE \E started \in BOOLEAN :
              /\ calls' = <<"dev_start">>
              /\ running_' = started
              /\ native' = IF started
                             THEN [native EXCEPT !.depth = TRUE, !.video = TRUE]
                             ELSE native
              /\ ret' = started
              /\ startedOk' = started
  /\ UNCHANGED <<notDevice, identVars, depth_started_, video_started_, audio_started_, audio_enabled_,
                 active_stream_, requested_stream_, selected_stream_, mailboxVars,
                 depthStarts, depthStops>>

FreenectV2Device_stop ==
  /\ gen = "V2"
  /\ lastOp' = "stop"
  /\ IF dev_ = "null"
       THEN ret' = FALSE /\ calls' = <<>> /\ UNCHANGED <<running_, native>>
       ELSE /\ IF running_
                 THEN /\ calls' = <<"dev_stop">>
                      /\ native' = [native EXCEPT !.depth = FALSE, !.video = FALSE]
                      /\ running_' = FALSE
                 ELSE calls' = <<>> /\ UNCHANGED <<running_, native>>
            /\ ret' = TRUE
  /\ UNCHANGED <<notDevice, identVars, depth_started_, video_started_, audio_started_, audio_enabled_,
                 active_stream_, requested_stream_, selected_stream_, mailboxVars,
                 sessionVars>>

FreenectV2Device_update ==
  /\ gen = "V2"
  /\ lastOp' = "update"
  /\ IF ~running_
       THEN /\ ret' = FALSE /\ calls' = <<>> /\ events_ok' = TRUE
            /\ UNCHANGED <<mailboxVars, result>>
       ELSE
         /\ calls' = <<"waitForNewFrame">>
         /\ \/ ret' = FALSE /\ events_ok' = FALSE /\ UNCHANGED <<mailboxVars, result>>
            \/ \E b \in Bundles :
                 LET next_frame == V2NextFrame(b, writes + 1)
                     assigned == next_frame.timestamp /= 0
                 IN
                 /\ writes < MaxWrites
                 /\ events_ok' = TRUE
                 /\ result' = [result EXCEPT !.frames = b]
                 /\ ret' = assigned
                 /\ IF assigned
                      THEN /\ frame_' = next_frame
                           /\ has_new_frame_' = TRUE
                           /\ writes' = writes + 1
                           /\ seqToks' = (IF drained THEN {} ELSE seqToks) \cup {writes + 1}
                           /\ drained' = FALSE
                           /\ lastTok' = writes + 1
                           /\ UNCHANGED <<out_frame, lastDepthTok, lastVideoTok>>
                      ELSE UNCHANGED mailboxVars
  /\ UNCHANGED <<backendVars, queueVars, exportVars, raceVars, ctlVars, atClose, audio_arg,
                 identVars, handleVars, requested_stream_, selected_stream_, sessionVars>>

FreenectV2Device_getFrame ==
  /\ gen = "V2"
  /\ lastOp' = "getFrame"
  /\ IF ~has_new_frame_
       THEN ret' = FALSE /\ out_frame' = FrameData /\ UNCHANGED <<frame_, has_new_frame_>>
       ELSE /\ out_frame' = frame_
            /\ has_new_frame_' = FALSE
            /\ ret' = TRUE
            /\ UNCHANGED frame_
  /\ drained' = TRUE
  /\ calls' = <<>>
  /\ UNCHANGED <<notDevice, identVars, handleVars, requested_stream_, selected_stream_, sessionVars,
                 writes, seqToks, lastTok, lastDepthTok, lastVideoTok>>

FreenectV2Device_setStreamKind ==
  /\ gen = "V2"
  /\ lastOp' = "setStreamKind"
  /\ \E kind \in StreamKind : selected_stream_' = kind
  /\ ret' = TRUE
  /\ calls' = <<>>
  /\ UNCHANGED <<notDevice, identVars, handleVars, requested_stream_, mailboxVars, sessionVars>>

InitDevice ==
  /\ gen \in {"V1", "V2"}
  /\ result = NoResult
  /\ dev_ = "null"
  /\ audio_supported_ \in (IF gen = "V1" THEN BOOLEAN ELSE {FALSE})
  /\ running_ = FALSE
  /\ depth_started_ = FALSE
  /\ video_started_ = FALSE
  /\ audio_started_ = FALSE
  /\ audio_enabled_ = FALSE
  /\ requested_stream_ = "kRgb"
  /\ active_stream_ = "kRgb"
  /\ selected_stream_ = "kRgb"
  /\ frame_ = FrameData
  /\ has_new_frame_ = FALSE
  /\ native = [depth |-> FALSE, video |-> FALSE, audio |-> FALSE, fmt |-> "RGB"]
  /\ writes = 0
  /\ lastOp = "construct"
  /\ ret = TRUE
  /\ out_frame = FrameData
  /\ calls = <<>>
  /\ depthStarts = 0
  /\ depthStops = 0
  /\ startedOk = FALSE
  /\ seqToks = {}
  /\ drained = FALSE
  /\ lastTok = 0
  /\ lastDepthTok = 0
  /\ lastVideoTok = 0
  /\ atClose = {}
  /\ audio_arg = FALSE
  /\ events_ok = TRUE

\* ---------------------------------------------------- destruction and preview
Streams == {"depth", "video", "audio"}

\* the fields of a newly constructed handle: after a handle is destroyed the
\* variables stand for the next one the caller makes
FreshHandle ==
  /\ dev_' = "null"
  /\ running_' = FALSE
  /\ depth_started_' = FALSE
  /\ video_started_' = FALSE
  /\ audio_started_' = FALSE
  /\ audio_enabled_' = FALSE
  /\ requested_stream_' = "kRgb"
  /\ active_stream_' = "kRgb"
  /\ selected_stream_' = "kRgb"
  /\ frame_' = FrameData
  /\ has_new_frame_' = FALSE
  /\ native' = [depth |-> FALSE, video |-> FALSE, audio |-> FALSE, fmt |-> "RGB"]
  /\ out_frame' = FrameData
  /\ depthStarts' = 0
  /\ depthStops' = 0
  /\ startedOk' = FALSE
  /\ seqToks' = {}
  /\ drained' = FALSE
  /\ lastTok' = 0
  /\ lastDepthTok' = 0
  /\ lastVideoTok' = 0
  /\ audio_arg' = FALSE
  /\ events_ok' = TRUE
  /\ UNCHANGED <<gen, audio_supported_, writes>>

\* ~FreenectV1Device on a handle s: stop(), then freenect_close_device
V1Destroy(s) ==
  LET s1 == IF s.running THEN V1Stop(s) ELSE s IN Call(s1, "close_device")

\* FreenectV2Device::stop and ~FreenectV2Device on a handle s
V2Stop(s) ==
  IF s.running
    THEN Call([s EXCEPT !.native.depth = FALSE, !.native.video = FALSE, !.running = FALSE],
              "dev_stop")
    ELSE s
V2Destroy(s) == Call(V2Stop(s), "close")

FreenectV1Device_destroy ==
  /\ gen = "V1" /\ dev_ = "open"
  /\ lastOp' = "destroy"
  /\ LET s == V1Destroy(Handle) IN
     /\ calls' = s.calls
     /\ atClose' = {k \in Streams : s.native[k]}
  /\ ret' = TRUE
  /\ FreshHandle
  /\ UNCHANGED <<backendVars, queueVars, asideVars>>

FreenectV2Device_destroy ==
  /\ gen = "V2" /\ dev_ = "open"
  /\ lastOp' = "destroy"
  /\ LET s == V2Destroy(Handle) IN
     /\ calls' = s.calls
     /\ atClose' = {k \in Streams : s.native[k]}
  /\ ret' = TRUE
  /\ FreshHandle
  /\ UNCHANGED <<backendVars, queueVars, asideVars>>

\* the handle preview() works on: the one its openDevice() has just made
PreviewHandle ==
  /\ lastOp = "open" /\ dev_ = "open"
  /\ ~running_ /\ ~audio_enabled_ /\ requested_stream_ = "kRgb" /\ selected_stream_ = "kRgb"

\* What the driver hands the handle in the passes of one polling loop: per pass
\* nothing, a depth frame, a video frame, or both of a pair.
PollScripts == UNION {[1..n -> {"none", "depth", "video", "pair"}] : n \in 0..MaxPolls}

\* The polling loop of preview() on generation g: f is the frame_ of the handle and
\* n the counts so far. A pass calls update(), which lets the driver deliver d, then
\* getFrame() (on Gen2 only when update() returned true), and counts the frame by
\* the buffers that are not empty.
RECURSIVE PreviewCount(_, _, _, _)
PreviewCount(g, polls, f, n) ==
  IF polls = <<>> THEN n
  ELSE
    LET d == Head(polls)
        tok == Len(polls)
        hasDepth == d \in {"depth", "pair"}
        hasVideo == d \in {"video", "pair"}
        afterDepth == IF hasDepth THEN DepthWrite(f, tok) ELSE f
        v1 == IF hasVideo THEN VideoWrite(afterDepth, tok) ELSE afterDepth
        next_frame == V2NextFrame([Color |-> IF hasVideo THEN "full" ELSE "absent",
                                   Ir |-> IF hasDepth THEN "full" ELSE "absent",
                                   Depth |-> IF hasDepth THEN "full" ELSE "absent"], tok)
        got == IF g = "V1" THEN d /= "none" ELSE d /= "none" /\ next_frame.timestamp /= 0
        frame == IF g = "V1" THEN v1 ELSE IF got THEN next_frame ELSE f
    IN
    PreviewCount(g, Tail(polls), frame,
                 [color_frames |-> n.color_frames + (IF got /\ frame.rgb /= 0 THEN 1 ELSE 0),
                  depth_frames |-> n.depth_frames + (IF got /\ frame.depth /= 0 THEN 1 ELSE 0)])

\* FreenectV1Backend::preview. Without a handle (nothing listed, or openDevice
\* returned null) it returns at once; with one it starts it, polls it, stops it
\* and lets it go out of scope. ret is PreviewResult::success.
FreenectV1Backend_preview ==
  /\ gen = "V1"
  /\ dev_ = "null" \/ PreviewHandle
  /\ lastOp' = "preview"
  /\ IF dev_ = "null"
       THEN /\ ret' = FALSE
            /\ calls' = <<>>
            /\ result' = NoResult
            /\ UNCHANGED <<identVars, handleVars, requested_stream_, selected_stream_,
                           mailboxVars, sessionVars, atClose, audio_arg, events_ok>>
       ELSE \E o \in StartOutcomes, polls \in PollScripts :
              LET s0 == Call(Handle, "open_device")
                  s1 == V1Start(s0, o)
                  s2 == IF polls /= <<>> THEN Call(s1, "process_events") ELSE s1
                  s3 == IF s1.ok THEN V1Destroy(V1Stop(s2)) ELSE V1Destroy(s1)
                  n == PreviewCount("V1", polls, FrameData, NoResult)
              IN
              /\ calls' = s3.calls
              /\ atClose' = {k \in Streams : s3.native[k]}
              /\ result' = IF s1.ok
                             THEN [polls |-> polls, color_frames |-> n.color_frames,
                                   depth_frames |-> n.depth_frames]
                             ELSE NoResult
              /\ ret' = (s1.ok /\ n.color_frames + n.depth_frames > 0)
              /\ FreshHandle
  /\ UNCHANGED <<backendVars, queueVars, exportVars, raceVars, ctlVars>>

\* FreenectV2Backend::preview
FreenectV2Backend_preview ==
  /\ gen = "V2"
  /\ dev_ = "null" \/ PreviewHandle
  /\ lastOp' = "preview"
  /\ IF dev_ = "null"
       THEN /\ ret' = FALSE
            /\ calls' = <<>>
            /\ result' = NoResult
            /\ UNCHANGED <<identVars, handleVars, requested_stream_, selected_stream_,
                           mailboxVars, sessionVars, atClose, audio_arg, events_ok>>
       ELSE \E started \in BOOLEAN, polls \in PollScripts :
              LET s0 == Call(Call(Handle, "openDevice"), "dev_start")
                  s1 == IF started
                          THEN [s0 EXCEPT !.native.depth = TRUE, !.native.video = TRUE,
                                          !.running = TRUE]
                          ELSE s0
                  s2 == IF polls /= <<>> THEN Call(s1, "waitForNewFrame") ELSE s1
                  s3 == IF started THEN V2Destroy(V2Stop(s2)) ELSE V2Destroy(s1)
                  n == PreviewCount("V2", polls, FrameData, NoResult)
              IN
              /\ calls' = s3.calls
              /\ atClose' = {k \in Streams : s3.native[k]}
              /\ result' = IF started
                             THEN [polls |-> polls, color_frames |-> n.color_frames,
                                   depth_frames |-> n.depth_frames]
                             ELSE NoResult
              /\ ret' = (started /\ n.color_frames + n.depth_frames > 0)
              /\ FreshHandle
  /\ UNCHANGED <<backendVars, queueVars, exportVars, raceVars, ctlVars>>

\* ------------------------------------------- stop() against update(), by statement
\* Neither function holds a lock while it reads or writes running_, the
\* *_started_ flags or active_stream_ (update() takes frame_mutex_ only for its
\* return value), so the two threads interleave statement by statement.
\* StopAt and UpdateAt give, for a thread at statement pc over the fields s,
\* the statement it is at next and the fields it leaves.

StopAt(pc, s) ==
  CASE pc = "idle"         -> <<IF dev_ = "null" \/ ~s.running THEN "done" ELSE "s_audio", s>>
    [] pc = "s_audio"      -> <<IF s.audio THEN "s_audio_call" ELSE "s_video", s>>
    [] pc = "s_audio_call" -> <<"s_audio_clr", [s EXCEPT !.native.audio = FALSE]>>
    [] pc = "s_audio_clr"  -> <<"s_video", [s EXCEPT !.audio = FALSE]>>
    [] pc = "s_video"      -> <<IF s.video THEN "s_video_call" ELSE "s_depth", s>>
    [] pc = "s_video_call" -> <<"s_video_clr", [s EXCEPT !.native.video = FALSE]>>
    [] pc = "s_video_clr"  -> <<"s_depth", [s EXCEPT !.video = FALSE]>>
    [] pc = "s_depth"      -> <<IF s.depth THEN "s_depth_call" ELSE "s_running", s>>
    [] pc = "s_depth_call" -> <<"s_depth_clr", [s EXCEPT !.native.depth = FALSE]>>
    [] pc = "s_depth_clr"  -> <<"s_running", [s EXCEPT !.depth = FALSE]>>
    [] pc = "s_running"    -> <<"done", [s EXCEPT !.running = FALSE]>>

\* update() with ApplyVideoMode inlined; o holds the answers of the driver
UpdateAt(pc, s, o, eventsOk) ==
  CASE pc = "idle"         -> <<IF ~s.running THEN "done" ELSE "u_compare", s>>
    [] pc = "u_compare"    -> <<IF requested_stream_ /= s.active THEN "a_mode" ELSE "u_events", s>>
    [] pc = "a_mode"       -> <<IF dev_ = "null" \/ ~o.videoValid THEN "u_events" ELSE "a_video", s>>
    [] pc = "a_video"      -> <<IF s.video THEN "a_stop_call" ELSE "a_set", s>>
    [] pc = "a_stop_call"  -> <<"a_stop_clr", [s EXCEPT !.native.video = FALSE]>>
    [] pc = "a_stop_clr"   -> <<"a_set", [s EXCEPT !.video = FALSE]>>
    [] pc = "a_set"        -> IF o.setVideoOk
                                THEN <<"a_start", [s EXCEPT !.native.fmt =
                                         IF requested_stream_ = "kIr" THEN "IR_8BIT" ELSE "RGB"]>>
                                ELSE <<"u_events", s>>
    [] pc = "a_start"      -> IF o.startVideoOk /\ ~s.native.video
                                THEN <<"a_started", [s EXCEPT !.native.video = TRUE]>>
                                ELSE <<"u_events", s>>
    [] pc = "a_started"    -> <<"a_active", [s EXCEPT !.video = TRUE]>>
    [] pc = "a_active"     -> <<"u_events", [s EXCEPT !.active = requested_stream_]>>
    [] pc = "u_events"     -> <<IF eventsOk THEN "u_lock" ELSE "done", s>>
    [] pc = "u_lock"       -> <<"u_return", s>>
    [] pc = "u_return"     -> <<"done", s>>

\* update(), lines 245-246: the lock_guard on frame_mutex_ is taken before
\* has_new_frame_ is read and let go by the return; no other statement of update(),
\* ApplyVideoMode or stop() takes it
MutexAfter(pc, held) ==
  IF pc = "u_lock" THEN "update" ELSE IF pc = "u_return" THEN "free" ELSE held

raceFixed == <<identVars, requested_stream_, selected_stream_, mailboxVars, sessionVars,
               lastOp, ret, atClose, audio_arg, events_ok, backendVars, queueVars, exportVars, ctlVars,
               result>>

FreenectV1Device_stop_step ==
  /\ gen = "V1" /\ dev_ = "open"
  /\ pcStop /= "done"
  /\ LET n == StopAt(pcStop, Handle) IN
     /\ pcStop' = n[1]
     /\ Install([n[2] EXCEPT !.calls = calls])
  /\ UNCHANGED <<pcUpdate, frame_mutex_, raceFixed>>

FreenectV1Device_update_step ==
  /\ gen = "V1" /\ dev_ = "open"
  /\ pcUpdate /= "done"
  /\ \E o \in VideoOutcomes, eventsOk \in BOOLEAN :
       LET n == UpdateAt(pcUpdate, Handle, o, eventsOk) IN
       /\ pcUpdate' = n[1]
       /\ Install([n[2] EXCEPT !.calls = calls])
  /\ frame_mutex_' = MutexAfter(pcUpdate, frame_mutex_)
  /\ UNCHANGED <<pcStop, raceFixed>>

\* what the caller did, one whole call after the other, before the two threads
\* meet
RaceSetup ==
  /\ pcStop = "idle" /\ pcUpdate = "idle"
  /\ \/ OpenHandle
     \/ FreenectV1Device_start
     \/ FreenectV1Device_setStreamKind
     \/ FreenectV1Device_setAudioEnabled

RaceAside == pcStop = "idle" /\ pcUpdate = "idle" /\ frame_mutex_ = "free"

NextRace ==
  \/ RaceSetup
  \/ FreenectV1Device_stop_step
  \/ FreenectV1Device_update_step

\* -------------------------------------------------------------------- backends
\* The physical units. The driver cannot read the camera serial of unit "X".
Units == {"A", "B", "X"}

\* Strings are sequences of symbols: the serial of unit "A" is <<"A">>, the empty
\* string (and a null camera_serial) is <<>>, "DeviceIndex-" is one symbol and a
\* number is written with one symbol per decimal digit.
camera_serial(u) == IF u = "X" THEN <<>> ELSE <<u>>

Digits == <<"0", "1", "2", "3", "4", "5", "6", "7", "8", "9">>
DigitValue(c) == (CHOOSE d \in 1..10 : Digits[d] = c) - 1
IsDigit(c) == \E d \in 1..10 : Digits[d] = c

\* std::to_string of a non-negative int
RECURSIVE to_string(_)
to_string(i) == IF i < 10 THEN <<Digits[i + 1]>>
                ELSE Append(to_string(i \div 10), Digits[(i % 10) + 1])

\* std::stoi: the value of the leading digits; -1 stands for the exception it
\* throws when there is none (the identifiers here carry no sign)
RECURSIVE stoi_digits(_, _)
stoi_digits(str, acc) ==
  IF str = <<>> \/ ~IsDigit(Head(str)) THEN acc
  ELSE stoi_digits(Tail(str), acc * 10 + DigitValue(Head(str)))
stoi(str) == IF str = <<>> \/ ~IsDigit(Head(str)) THEN -1 ELSE stoi_digits(str, 0)

IsSyntheticIndexSerial(serial) == Len(serial) > 0 /\ serial[1] = "DeviceIndex-"

\* every way up to MaxUnits distinct units can sit on the bus
Snapshots ==
  {q \in UNION {[1..n -> Units] : n \in 0..MaxUnits} :
     \A i, j \in DOMAIN q : i /= j => q[i] /= q[j]}

\* One answer of freenect_list_device_attributes: the count it returns and the
\* attribute list it hands over. The bus shows what is attached, or nothing for a
\* moment (a failing call takes the branch of an empty one: count > 0 is false).
ListAnswers(q) == {[count |-> 0, attrs |-> <<>>], [count |-> Len(q), attrs |-> q]}
\* one answer of freenect_num_devices
CountAnswers(q) == {-1, 0, Len(q)}

ListEnds(a) == a.count > 0 /\ a.attrs /= <<>>
CountEnds(c) == c /= 0

\* the answers one run of a retry loop consumes: it stops at the first answer
\* that ends the loop, or after `attempts` answers
ListScripts(q, attempts) ==
  {a \in UNION {[1..n -> ListAnswers(q)] : n \in 1..attempts} :
     /\ \A i \in 1..(Len(a) - 1) : ~ListEnds(a[i])
     /\ Len(a) = attempts \/ ListEnds(a[Len(a)])}
CountScripts(q, attempts) ==
  {a \in UNION {[1..n -> CountAnswers(q)] : n \in 1..attempts} :
     /\ \A i \in 1..(Len(a) - 1) : ~CountEnds(a[i])
     /\ Len(a) = attempts \/ CountEnds(a[Len(a)])}

Max(a, b) == IF a >= b THEN a ELSE b

\* FreenectV1Backend::EnumerateCountWithRetries from attempt on; cs are the answers
\* of freenect_num_devices
RECURSIVE EnumerateLoop(_, _, _, _)
EnumerateLoop(attempt, clamped_attempts, cs, slept) ==
  IF attempt >= clamped_attempts THEN [count |-> 0, sleeps |-> slept, calls |-> attempt]
  ELSE
    LET count == cs[attempt + 1] IN
    IF count /= 0 THEN [count |-> count, sleeps |-> slept, calls |-> attempt + 1]
    ELSE EnumerateLoop(attempt + 1, clamped_attempts, cs,
                       IF attempt + 1 < clamped_attempts THEN slept + 1 ELSE slept)

EnumerateCountWithRetries(attempts, cs) ==
  IF ctx_ = "null" THEN [count |-> -1, sleeps |-> 0, calls |-> 0]
  ELSE EnumerateLoop(0, Max(1, attempts), cs, 0)

DeviceInfo(generation, serial) ==
  [generation |-> generation, serial |-> serial,
   name |-> IF generation = "kV1" THEN "Kinect v1" ELSE "Kinect v2"]

\* the descriptors as they would be if positions were counted from one
FromAttributes_oneBased(attrs) ==
  [i \in 1..Len(attrs) |->
     DeviceInfo("kV1", IF camera_serial(attrs[i]) /= <<>>
                         THEN camera_serial(attrs[i])
                         ELSE <<"DeviceIndex-">> \o to_string(i))]

\* FreenectV1Backend::listDevices, lines 561-571: the descriptors of one attribute list
FromAttributes(attrs) ==
  [i \in 1..Len(attrs) |->
     DeviceInfo("kV1", IF camera_serial(attrs[i]) /= <<>>
                         THEN camera_serial(attrs[i])
                         ELSE <<"DeviceIndex-">> \o to_string(i - 1))]

\* the fallback as it would be if it always named at least one position
FallbackByIndex_atLeastOne(fallback_count) ==
  [i \in 1..Max(1, fallback_count) |-> DeviceInfo("kV1", <<"DeviceIndex-">> \o to_string(i - 1))]

\* FreenectV1Backend::listDevices, lines 581-590
FallbackByIndex(fallback_count) ==
  [i \in 1..fallback_count |-> DeviceInfo("kV1", <<"DeviceIndex-">> \o to_string(i - 1))]

\* the loop of listDevices as it would be if it slept before every attempt
RECURSIVE ListLoop_sleepsFirst(_, _, _)
ListLoop_sleepsFirst(attempt, ls, slept) ==
  IF attempt >= 4 THEN [found |-> FALSE, devices |-> <<>>, sleeps |-> slept, calls |-> attempt]
  ELSE
    LET a == ls[attempt + 1] IN
    IF a.count > 0 /\ a.attrs /= <<>>
      THEN [found |-> TRUE, devices |-> FromAttributes(a.attrs), sleeps |-> slept + 1,
            calls |-> attempt + 1]
      ELSE ListLoop_sleepsFirst(attempt + 1, ls, slept + 1)

\* FreenectV1Backend::listDevices, the loop of lines 557-579 from attempt on; ls
\* are the answers of freenect_list_device_attributes
RECURSIVE ListLoop(_, _, _)
ListLoop(attempt, ls, slept) ==
  IF attempt >= 4 THEN [found |-> FALSE, devices |-> <<>>, sleeps |-> slept, calls |-> attempt]
  ELSE
    LET a == ls[attempt + 1] IN
    IF a.count > 0 /\ a.attrs /= <<>>
      THEN [found |-> TRUE, devices |-> FromAttributes(a.attrs), sleeps |-> slept,
            calls |-> attempt + 1]
      ELSE ListLoop(attempt + 1, ls, IF attempt + 1 < 4 THEN slept + 1 ELSE slept)

\* FreenectV1Backend::listDevices for the answers ls, and cs in the fallback
ListDevicesV1(ls, cs) ==
  IF ctx_ = "null" THEN [devices |-> <<>>, sleeps |-> 0, listed |-> <<>>, counted |-> <<>>]
  ELSE
    LET l == ListLoop(0, ls, 0) IN
    IF l.found
      THEN [devices |-> l.devices, sleeps |-> l.sleeps, listed |-> SubSeq(ls, 1, l.calls),
            counted |-> <<>>]
      ELSE
        LET e == EnumerateCountWithRetries(4, cs) IN
        [devices |-> FallbackByIndex(Max(0, e.count)), sleeps |-> l.sleeps + e.sleeps,
         listed |-> SubSeq(ls, 1, l.calls), counted |-> SubSeq(cs, 1, e.calls)]

\* FreenectV1Backend::probe for the answers cs of freenect_num_devices
ProbeV1(cs) ==
  IF ctx_ = "null" THEN [available |-> FALSE, detail |-> "init failed", sleeps |-> 0, calls |-> 0]
  ELSE
    LET e == EnumerateCountWithRetries(4, cs)
        r(available, detail) == [available |-> available, detail |-> detail,
                                 sleeps |-> e.sleeps, calls |-> e.calls]
    IN
    IF e.count < 0 THEN r(FALSE, "enumeration failed")
    ELSE IF e.count = 0
      THEN IF has_audio_firmware_ THEN r(TRUE, "ready, none attached")
           ELSE r(TRUE, "ready (camera/depth only), none attached")
    ELSE IF ~has_audio_firmware_ THEN r(TRUE, "detected, audio disabled")
    ELSE r(TRUE, "detected")

\* FreenectV2Backend::probe for the answer count of enumerateDevices
ProbeV2(count) ==
  IF count <= 0 THEN [available |-> FALSE, detail |-> "none found"]
  ELSE [available |-> TRUE, detail |-> "detected"]

\* FreenectV2Backend::listDevices for the units q that enumerateDevices found
ListDevicesV2(q) == [i \in 1..Len(q) |-> DeviceInfo("kV2", <<q[i]>>)]

NoProbe == [available |-> FALSE, detail |-> ""]
NoHandle == [dev |-> "null", index |-> -1, serial |-> <<>>]

notBackend == <<devVars, queueVars, asideVars>>
configVars == <<backend, ctx_, has_audio_firmware_, bus>>
openVars == <<id, outer, opened, tried, opening>>

\* an operation forgets what the one before it reported
ForgetOpen ==
  /\ id' = <<>> /\ outer' = 0 /\ opened' = NoHandle /\ tried' = <<>> /\ opening' = FALSE
ForgetListing ==
  /\ devices' = <<>> /\ listed' = <<>>

FreenectV1Backend_probe ==
  /\ backend = "V1" /\ ~opening
  /\ bop' = "probe"
  /\ \E cs \in CountScripts(bus, 4) :
       LET r == ProbeV1(cs) IN
       /\ probe_result' = [available |-> r.available, detail |-> r.detail]
       /\ sleeps' = r.sleeps
       /\ counted' = SubSeq(cs, 1, r.calls)
  /\ ForgetListing
  /\ ForgetOpen
  /\ UNCHANGED <<configVars, notBackend>>

FreenectV2Backend_probe ==
  /\ backend = "V2" /\ ~opening
  /\ bop' = "probe"
  /\ \E count \in {0, Len(bus)} :
       /\ probe_result' = ProbeV2(count)
       /\ counted' = <<count>>
  /\ sleeps' = 0
  /\ ForgetListing
  /\ ForgetOpen
  /\ UNCHANGED <<configVars, notBackend>>

FreenectV1Backend_listDevices ==
  /\ backend = "V1" /\ ~opening
  /\ bop' = "listDevices"
  /\ \E ls \in ListScripts(bus, 4) :
       \E cs \in (IF ListEnds(ls[Len(ls)]) THEN {<<0>>} ELSE CountScripts(bus, 4)) :
         LET r == ListDevicesV1(ls, cs) IN
         /\ devices' = r.devices
         /\ sleeps' = r.sleeps
         /\ listed' = r.listed
         /\ counted' = r.counted
  /\ probe_result' = NoProbe
  /\ ForgetOpen
  /\ UNCHANGED <<configVars, notBackend>>

FreenectV2Backend_listDevices ==
  /\ backend = "V2" /\ ~opening
  /\ bop' = "listDevices"
  /\ \E q \in {bus, <<>>} :
       /\ devices' = ListDevicesV2(q)
       /\ listed' = <<[count |-> Len(q), attrs |-> q]>>
  /\ sleeps' = 0
  /\ counted' = <<>>
  /\ probe_result' = NoProbe
  /\ ForgetOpen
  /\ UNCHANGED <<configVars, notBackend>>

\* ---- openDevice
\* What the native opens meet during one outer attempt: the units that do not
\* open now (claimed, resetting), and whether lookup by serial works at all.
Environments(q) == [refuse : SUBSET {q[i] : i \in DOMAIN q}, by_serial : BOOLEAN]

freenect_open_device_by_camera_serial(camera, env) ==
  LET hits == {i \in DOMAIN bus : camera_serial(bus[i]) = camera /\ bus[i] \notin env.refuse} IN
  IF env.by_serial /\ hits /= {} THEN bus[CHOOSE i \in hits : TRUE] ELSE "null"

freenect_open_device(index, env) ==
  IF index >= 0 /\ index < Len(bus) /\ bus[index + 1] \notin env.refuse
    THEN bus[index + 1] ELSE "null"

NativeOpen(by, camera, index, dev) == [by |-> by, serial |-> camera, index |-> index, dev |-> dev]

\* FreenectV1Device::open of a handle made for (index_, serial_): the unit it
\* reaches ("null": open() returned false) and the native opens it made
FreenectV1Device_open(index_, serial_, env) ==
  LET by_serial == serial_ /= <<>> /\ ~IsSyntheticIndexSerial(serial_)
      d1 == IF by_serial THEN freenect_open_device_by_camera_serial(serial_, env) ELSE "null"
      log1 == IF by_serial THEN <<NativeOpen("serial", serial_, -1, d1)>> ELSE <<>>
      by_index == d1 = "null" /\ index_ >= 0
      d2 == IF by_index THEN freenect_open_device(index_, env) ELSE d1
      log2 == IF by_index THEN Append(log1, NativeOpen("index", <<>>, index_, d2)) ELSE log1
  IN [dev |-> IF ctx_ = "null" THEN "null" ELSE d2,
      log |-> IF ctx_ = "null" THEN <<>> ELSE log2]

\* openDevice, lines 632-636: the handles of the candidates in order, up to the
\* first that opens
RECURSIVE TryCandidates(_, _, _, _)
TryCandidates(candidates, candidate_serial, env, log) ==
  IF candidates = <<>> THEN [dev |-> "null", index |-> -1, log |-> log]
  ELSE
    LET t == FreenectV1Device_open(Head(candidates), candidate_serial, env) IN
    IF t.dev /= "null"
      THEN [dev |-> t.dev, index |-> Head(candidates), log |-> log \o t.log]
      ELSE TryCandidates(Tail(candidates), candidate_serial, env, log \o t.log)

\* the candidate list as it would be without the set of positions already seen
Candidates_noSeen(identifier, count, listing) ==
  LET first ==
        IF IsSyntheticIndexSerial(identifier)
          THEN IF stoi(Tail(identifier)) >= 0 THEN <<stoi(Tail(identifier))>> ELSE <<>>
        ELSE IF identifier /= <<>>
          THEN LET hits == {i \in DOMAIN listing : listing[i].serial = identifier} IN
               IF hits = {} THEN <<>>
               ELSE <<(CHOOSE i \in hits : \A j \in hits : i <= j) - 1>>
        ELSE <<>>
  IN first \o [i \in 1..count |-> i - 1]

\* openDevice, lines 611-630: the positions to try, the one the identifier names first
Candidates(identifier, count, listing) ==
  LET first ==
        IF IsSyntheticIndexSerial(identifier)
          THEN IF stoi(Tail(identifier)) >= 0 THEN <<stoi(Tail(identifier))>> ELSE <<>>
        ELSE IF identifier /= <<>>
          THEN LET hits == {i \in DOMAIN listing : listing[i].serial = identifier} IN
               IF hits = {} THEN <<>>
               ELSE <<(CHOOSE i \in hits : \A j \in hits : i <= j) - 1>>
        ELSE <<>>
      seen == {first[i] : i \in DOMAIN first}
  IN first \o SelectSeq([i \in 1..count |-> i - 1], LAMBDA i : i \notin seen)

\* the identifiers openDevice is asked for: none, two real serials, two
\* positional identifiers and a positional one without a number
Identifiers == {<<>>, <<"A">>, <<"B">>, <<"DeviceIndex-">> \o to_string(0),
                <<"DeviceIndex-">> \o to_string(1), <<"DeviceIndex-">>}

kMaxRetries == 6

\* FreenectV1Backend::openDevice up to its loop
FreenectV1Backend_openDevice ==
  /\ backend = "V1" /\ ~opening
  /\ bop' = "openDevice"
  /\ \E identifier \in Identifiers : id' = identifier
  /\ outer' = 0
  /\ opened' = NoHandle
  /\ tried' = <<>>
  /\ opening' = (ctx_ /= "null")
  /\ probe_result' = NoProbe
  /\ ForgetListing
  /\ sleeps' = 0
  /\ counted' = <<>>
  /\ UNCHANGED <<configVars, notBackend>>

\* one pass of the loop of FreenectV1Backend::openDevice, the return included
FreenectV1Backend_openDevice_attempt ==
  /\ backend = "V1" /\ opening
  /\ \E env \in Environments(bus) :
       LET real == id /= <<>> /\ ~IsSyntheticIndexSerial(id)
           t0 == IF real THEN FreenectV1Device_open(-1, id, env)
                 ELSE [dev |-> "null", log |-> <<>>]
       IN
       IF t0.dev /= "null"
         THEN /\ opened' = [dev |-> t0.dev, index |-> -1, serial |-> id]
              /\ tried' = t0.log
              /\ outer' = outer
              /\ opening' = FALSE
         ELSE
           \E cs \in CountScripts(bus, 2) :
           \E ls \in (IF real THEN ListScripts(bus, 4) ELSE {<<>>}) :
           \E lcs \in (IF real /\ ~ListEnds(ls[Len(ls)]) THEN CountScripts(bus, 4) ELSE {<<0>>}) :
             LET count == Max(0, EnumerateCountWithRetries(2, cs).count)
                 listing == IF real THEN ListDevicesV1(ls, lcs).devices ELSE <<>>
                 c == TryCandidates(Candidates(id, count, listing), id, env, t0.log)
             IN
             /\ tried' = c.log
             /\ IF c.dev /= "null"
                  THEN /\ opened' = [dev |-> c.dev, index |-> c.index, serial |-> id]
                       /\ outer' = outer
                       /\ opening' = FALSE
                  ELSE /\ opened' = NoHandle
                       /\ outer' = outer + 1
                       /\ opening' = (outer + 1 < kMaxRetries)
  /\ UNCHANGED <<configVars, bop, probe_result, devices, sleeps, listed, counted, id, notBackend>>

\* FreenectV2Backend::openDevice with FreenectV2Device::open
FreenectV2Backend_openDevice ==
  /\ backend = "V2" /\ ~opening
  /\ bop' = "openDevice"
  /\ \E identifier \in Identifiers, env \in Environments(bus) :
       LET hits == {i \in DOMAIN bus : <<bus[i]>> = identifier /\ bus[i] \notin env.refuse}
           dev == IF hits /= {} THEN bus[CHOOSE i \in hits : TRUE] ELSE "null"
       IN
       /\ id' = identifier
       /\ opened' = IF identifier = <<>> \/ dev = "null" THEN NoHandle
                    ELSE [dev |-> dev, index |-> -1, serial |-> identifier]
       /\ tried' = IF identifier = <<>> THEN <<>>
                   ELSE <<NativeOpen("serial", identifier, -1, dev)>>
  /\ outer' = 0
  /\ opening' = FALSE
  /\ probe_result' = NoProbe
  /\ ForgetListing
  /\ sleeps' = 0
  /\ counted' = <<>>
  /\ UNCHANGED <<configVars, notBackend>>

\* units are plugged, unplugged or re-enumerated between the calls and between
\* the outer attempts of openDevice
Replug ==
  /\ \E q \in Snapshots : bus' = q
  /\ bus' /= bus
  /\ bop' = IF opening THEN bop ELSE "replug"
  /\ probe_result' = NoProbe
  /\ ForgetListing
  /\ sleeps' = 0
  /\ counted' = <<>>
  /\ IF opening THEN UNCHANGED openVars ELSE ForgetOpen
  /\ UNCHANGED <<backend, ctx_, has_audio_firmware_, notBackend>>

InitBackend ==
  /\ backend \in {"V1", "V2"}
  /\ ctx_ \in (IF backend = "V1" THEN {"null", "ok"} ELSE {"ok"})
  /\ has_audio_firmware_ \in (IF backend = "V1" /\ ctx_ = "ok" THEN BOOLEAN ELSE {FALSE})
  /\ bus \in Snapshots
  /\ bop = "construct"
  /\ probe_result = NoProbe
  /\ devices = <<>>
  /\ sleeps = 0
  /\ listed = <<>>
  /\ counted = <<>>
  /\ id = <<>>
  /\ outer = 0
  /\ opened = NoHandle
  /\ tried = <<>>
  /\ opening = FALSE

\* the backend while a device handle is looked at on its own
BackendAside ==
  /\ InitBackend
  /\ backend = "V1" /\ ctx_ = "ok" /\ has_audio_firmware_ = FALSE /\ bus = <<>>

NextBackend ==
  \/ FreenectV1Backend_probe
  \/ FreenectV2Backend_probe
  \/ FreenectV1Backend_listDevices
  \/ FreenectV2Backend_listDevices
  \/ FreenectV1Backend_openDevice
  \/ FreenectV1Backend_openDevice_attempt
  \/ FreenectV2Backend_openDevice
  \/ Replug

\* ------------------------------------------------------------ DAL sample queue
notQueue == <<devVars, backendVars, asideVars>>

\* CMSimpleQueue: a FIFO of fixed capacity; enqueue on a full queue fails, dequeue
\* on an empty one returns nothing (-1)
CMSimpleQueueEnqueue(q, element) ==
  IF Len(q) < kQueueCapacity THEN [ok |-> TRUE, q |-> Append(q, element)]
  ELSE [ok |-> FALSE, q |-> q]
\* the queue as it would be if a dequeue handed out the newest entry
CMSimpleQueueDequeue_newest(q) ==
  IF q = <<>> THEN [element |-> -1, q |-> q]
  ELSE [element |-> q[Len(q)], q |-> SubSeq(q, 1, Len(q) - 1)]

CMSimpleQueueDequeue(q) ==
  IF q = <<>> THEN [element |-> -1, q |-> q] ELSE [element |-> Head(q), q |-> Tail(q)]

\* tick, queue_there: the frame index of the last tick begun and whether a queue
\* existed then; got: nextRGB gave a sensor frame in that tick; shown: the tick whose
\* sensor frame the sample's pixels are (-1: the fallback pattern, or no sample);
\* last_sensor: the last tick in which nextRGB gave a sensor frame; last_out: the
\* frame index the host dequeued last since the producer was started (-1: none);
\* created: CreateSampleBuffer gave a sample in that tick; released: the samples
\* (by frame index) ProducerLoop gave to CFRelease in that tick, in order; flushed:
\* the samples FlushQueueLocked gave to CFRelease since.
NoPush == [sample |-> -1, full |-> FALSE, evicted |-> <<>>, older_left |-> FALSE,
           disturbed |-> FALSE, enqueued |-> FALSE, notified |-> FALSE, done |-> FALSE,
           tick |-> -1, queue_there |-> FALSE, got |-> FALSE, shown |-> -1,
           last_sensor |-> -1, last_out |-> -1,
           created |-> FALSE, released |-> <<>>, flushed |-> <<>>]

\* the release as it would be if the token were dropped without CFRelease
CFRelease_kept(released, token) == released

\* lines 260-262, 291-293 and 305-307: CFRelease of a token unless it is null (-1)
CFRelease(released, token) == IF token = -1 THEN released ELSE Append(released, token)

\* FlushQueueLocked, lines 257-263: the loop that empties the queue; what it released
RECURSIVE FlushQueueLocked(_, _)
FlushQueueLocked(q, released) ==
  IF q = <<>> THEN released
  ELSE LET d == CMSimpleQueueDequeue(q) IN FlushQueueLocked(d.q, CFRelease(released, d.element))

\* the loop condition of ProducerLoop as it would be if it evicted only above capacity
NeedsEviction_aboveCapacity(count) == count > kQueueCapacity

\* ProducerLoop, line 288: the condition of the eviction loop
NeedsEviction(count) == count >= kQueueCapacity

\* CreateSampleBuffer, lines 227-231: what the sample's pixels are. The source's frame
\* when nextRGB gave one in this tick, the fallback pattern otherwise.
SamplePixels(got, frame_index) == IF got THEN frame_index ELSE -1

\* ProducerLoop, lines 282-288, with CreateSampleBuffer: a new tick. The sample
\* buffer is made (made: its allocations succeeded) and filled (got: nextRGB gave a
\* sensor frame, which takes a sensor handle), the state mutex taken and the queue's count looked at for the
\* first time.
Producer_begin ==
  /\ producer = "head" /\ gProducerRunning
  /\ gFrameCounter < MaxFrames
  /\ gFrameCounter' = gFrameCounter + 1
  /\ \E made \in BOOLEAN, got \in (IF device_ = "streaming" THEN BOOLEAN ELSE {FALSE}) :
       LET seen == [NoPush EXCEPT !.tick = gFrameCounter,
                                  !.queue_there = (gSampleQueue = "created"),
                                  !.got = made /\ got,
                                  !.last_sensor = IF made /\ got THEN gFrameCounter
                                                  ELSE push.last_sensor,
                                  !.last_out = push.last_out,
                                  !.created = made] IN
       IF made /\ gSampleQueue = "created"
         THEN /\ sample' = gFrameCounter
              /\ push' = [seen EXCEPT !.sample = gFrameCounter,
                                      !.full = (Len(items) = kQueueCapacity),
                                      !.shown = SamplePixels(got, gFrameCounter)]
              /\ producer' = IF NeedsEviction(Len(items)) THEN "evict" ELSE "enqueue"
         ELSE /\ sample' = -1
              /\ push' = [seen EXCEPT !.released =
                                        CFRelease(<<>>, IF made THEN gFrameCounter ELSE -1)]
              /\ producer' = "head"
  /\ UNCHANGED <<gSampleQueue, items, gQueueAlteredProc, gProducerRunning, gRunningClients,
                 device_, host_call, host, notQueue>>

\* ProducerLoop, lines 288-294: one pass of the eviction loop
Producer_evict ==
  /\ producer = "evict"
  /\ LET d == CMSimpleQueueDequeue(items) IN
     /\ items' = d.q
     /\ push' = [push EXCEPT !.evicted = Append(@, d.element),
                             !.released = CFRelease(@, d.element),
                             !.older_left = \E i \in DOMAIN d.q : d.q[i] < d.element]
     /\ producer' = IF NeedsEviction(Len(d.q)) THEN "evict" ELSE "enqueue"
  /\ UNCHANGED <<gSampleQueue, gQueueAlteredProc, gProducerRunning, gRunningClients,
                 gFrameCounter, sample, device_, host_call, host, notQueue>>

\* ProducerLoop, lines 296-309: enqueue, notify the host, release what is left
Producer_enqueue ==
  /\ producer = "enqueue"
  /\ LET r == CMSimpleQueueEnqueue(items, sample) IN
     /\ items' = r.q
     /\ push' = [push EXCEPT !.enqueued = r.ok,
                             !.notified = r.ok /\ gQueueAlteredProc /= "null",
                             !.released = CFRelease(@, IF r.ok THEN -1 ELSE sample),
                             !.done = TRUE]
  /\ sample' = -1
  /\ producer' = "head"
  /\ UNCHANGED <<gSampleQueue, gQueueAlteredProc, gProducerRunning, gRunningClients,
                 gFrameCounter, device_, host_call, host, notQueue>>

\* The host drains the queue PlugInStreamCopyBufferQueue handed it; it does not
\* know the plug-in's state mutex.
Host_dequeue ==
  /\ gSampleQueue = "created" /\ items /= <<>>
  /\ items' = CMSimpleQueueDequeue(items).q
  /\ push' = [push EXCEPT !.disturbed = @ \/ producer \in {"evict", "enqueue"},
                          !.last_out = CMSimpleQueueDequeue(items).element]
  /\ UNCHANGED <<gSampleQueue, gQueueAlteredProc, gProducerRunning, gRunningClients,
                 gFrameCounter, producer, sample, device_, host_call, host, notQueue>>

PlugInStreamCopyBufferQueue ==
  /\ producer \in {"none", "head"}
  /\ host_call' = "CopyBufferQueue"
  /\ \E created \in BOOLEAN :
       IF gSampleQueue = "null" /\ ~created
         THEN UNCHANGED <<gSampleQueue, items, gQueueAlteredProc>>
         ELSE /\ gSampleQueue' = "created"
              /\ items' = IF gSampleQueue = "null" THEN <<>> ELSE items
              /\ gQueueAlteredProc' = "proc"
  /\ UNCHANGED <<gProducerRunning, gRunningClients, gFrameCounter, producer, sample, push,
                 device_, host, notQueue>>

\* the stop as it would be without the flush of the queue
StopProducing_noFlush ==
  /\ gProducerRunning' = FALSE
  /\ producer' = "none"
  /\ device_' = "null"
  /\ items' = items
  /\ push' = push

\* the stop as it would be if it left the producer thread running
StopProducing_leavesThread ==
  /\ gProducerRunning' = gProducerRunning
  /\ producer' = producer
  /\ device_' = "null"
  /\ items' = <<>>
  /\ push' = [push EXCEPT !.flushed = FlushQueueLocked(items, <<>>)]

\* StopProducingIfNeeded past the early return: the producer is joined at the head
\* of its loop, the sensor stopped and let go, the queue flushed and every sample
\* taken out of it released
StopProducing ==
  /\ gProducerRunning' = FALSE
  /\ producer' = "none"
  /\ device_' = "null"
  /\ items' = <<>>
  /\ push' = [push EXCEPT !.flushed = FlushQueueLocked(items, <<>>)]

\* PlugInDeviceStartStream with StartProducingIfNeeded; gKinectSource.start() may
\* find no sensor to stream from
PlugInDeviceStartStream ==
  /\ gRunningClients < MaxClients
  /\ host_call' = "StartStream"
  /\ gRunningClients' = gRunningClients + 1
  /\ IF gRunningClients /= 0
       THEN UNCHANGED <<gFrameCounter, gProducerRunning, producer, device_, push>>
       ELSE /\ gFrameCounter' = 0
            /\ device_' \in {"null", "streaming"}
            /\ gProducerRunning' = TRUE
            /\ producer' = "head"
            /\ push' = NoPush
  /\ UNCHANGED <<gSampleQueue, items, gQueueAlteredProc, sample, host, notQueue>>

\* PlugInDeviceStopStream with StopProducingIfNeeded
PlugInDeviceStopStream ==
  /\ producer \in {"none", "head"}
  /\ host_call' = "StopStream"
  /\ IF gRunningClients > 0
       THEN /\ gRunningClients' = gRunningClients - 1
            /\ IF gRunningClients > 1
                 THEN UNCHANGED <<gProducerRunning, producer, device_, items, push>>
                 ELSE StopProducing
       ELSE UNCHANGED <<gRunningClients, gProducerRunning, producer, device_, items, push>>
  /\ UNCHANGED <<gSampleQueue, gQueueAlteredProc, gFrameCounter, sample, host, notQueue>>

\* PlugInDeviceSuspend: StopProducingIfNeeded until no client is left
PlugInDeviceSuspend ==
  /\ producer \in {"none", "head"}
  /\ host_call' = "Suspend"
  /\ IF gRunningClients > 0
       THEN gRunningClients' = 0 /\ StopProducing
       ELSE UNCHANGED <<gRunningClients, gProducerRunning, producer, device_, items, push>>
  /\ UNCHANGED <<gSampleQueue, gQueueAlteredProc, gFrameCounter, sample, host, notQueue>>

TeardownObjects ==
  /\ producer \in {"none", "head"}
  /\ host_call' = "Teardown"
  /\ gRunningClients' = 0
  /\ StopProducing
  /\ gSampleQueue' = "null"
  /\ gQueueAlteredProc' = "null"
  /\ UNCHANGED <<gFrameCounter, sample, host, notQueue>>

InitQueue ==
  /\ gSampleQueue = "null"
  /\ items = <<>>
  /\ gQueueAlteredProc = "null"
  /\ gProducerRunning = FALSE
  /\ gRunningClients = 0
  /\ gFrameCounter = 0
  /\ producer = "none"
  /\ sample = -1
  /\ device_ = "null"
  /\ push = NoPush
  /\ host_call = "none"
  /\ host = [t \in 1..MaxHostThreads |-> [pc |-> "idle", previous |-> 0]]

NextQueue ==
  \/ Producer_begin
  \/ Producer_evict
  \/ Producer_enqueue
  \/ Host_dequeue
  \/ PlugInStreamCopyBufferQueue
  \/ PlugInDeviceStartStream
  \/ PlugInDeviceStopStream
  \/ PlugInDeviceSuspend
  \/ TeardownObjects

\* ---- StartStream and StopStream from several host threads, by statement
\* gRunningClients is a UInt32. It is kept here as the int32 of the same bits, so
\* -1 is 0xFFFFFFFF, the value a fetch_sub on 0 leaves; the comparisons of the code
\* are unsigned: `> 0` is "not 0", `> 1` is "neither 0 nor 1".

\* PlugInDeviceStartStream with StartProducingIfNeeded, lines 314-326, one
\* statement of one host thread
PlugInDeviceStartStream_step ==
  /\ producer /= "terminated"
  /\ host_call' = "StartStream"
  /\ \E t \in 1..MaxHostThreads :
       LET at(pc, previous) == host' = [host EXCEPT ![t] = [pc |-> pc, previous |-> previous]] IN
       CASE host[t].pc = "idle" ->
              /\ gRunningClients >= 0 /\ gRunningClients < MaxClients
              /\ gRunningClients' = gRunningClients + 1
              /\ at(IF gRunningClients /= 0 THEN "idle" ELSE "s_store", gRunningClients)
              /\ UNCHANGED <<gFrameCounter, device_, gProducerRunning, producer>>
         [] host[t].pc = "s_store" ->
              /\ gFrameCounter' = 0
              /\ device_' \in {"null", "streaming"}
              /\ at("s_flag", host[t].previous)
              /\ UNCHANGED <<gRunningClients, gProducerRunning, producer>>
         [] host[t].pc = "s_flag" ->
              /\ gProducerRunning' = TRUE
              /\ at("s_thread", host[t].previous)
              /\ UNCHANGED <<gRunningClients, gFrameCounter, device_, producer>>
         [] host[t].pc = "s_thread" ->
              /\ producer' = IF producer /= "none" THEN "terminated" ELSE "head"
              /\ at("idle", host[t].previous)
              /\ UNCHANGED <<gRunningClients, gFrameCounter, device_, gProducerRunning>>
         [] OTHER -> FALSE
  /\ UNCHANGED <<gSampleQueue, items, gQueueAlteredProc, sample, push, notQueue>>

\* PlugInDeviceStopStream with StopProducingIfNeeded, lines 328-344 and 1095-1106,
\* one statement of one host thread. join() returns once the producer has seen
\* gProducerRunning false.
PlugInDeviceStopStream_step ==
  /\ producer /= "terminated"
  /\ host_call' = "StopStream"
  /\ \E t \in 1..MaxHostThreads :
       LET at(pc, previous) == host' = [host EXCEPT ![t] = [pc |-> pc, previous |-> previous]] IN
       CASE host[t].pc = "idle" ->
              /\ gRunningClients >= 0
              /\ at(IF gRunningClients /= 0 THEN "t_sub" ELSE "idle", host[t].previous)
              /\ UNCHANGED <<gRunningClients, gProducerRunning, producer, device_, items>>
         [] host[t].pc = "t_sub" ->
              /\ gRunningClients' = gRunningClients - 1
              /\ at(IF gRunningClients \notin {0, 1} THEN "idle" ELSE "t_flag", gRunningClients)
              /\ UNCHANGED <<gProducerRunning, producer, device_, items>>
         [] host[t].pc = "t_flag" ->
              /\ gProducerRunning' = FALSE
              /\ at("t_join", host[t].previous)
              /\ UNCHANGED <<gRunningClients, producer, device_, items>>
         [] host[t].pc = "t_join" ->
              /\ producer /= "none" => ~gProducerRunning
              /\ producer' = "none"
              /\ at("t_flush", host[t].previous)
              /\ UNCHANGED <<gRunningClients, gProducerRunning, device_, items>>
         [] host[t].pc = "t_flush" ->
              /\ device_' = "null"
              /\ items' = <<>>
              /\ at("idle", host[t].previous)
              /\ UNCHANGED <<gRunningClients, gProducerRunning, producer>>
         [] OTHER -> FALSE
  /\ UNCHANGED <<gSampleQueue, gQueueAlteredProc, gFrameCounter, sample, push, notQueue>>

NextStreams ==
  \/ PlugInDeviceStartStream_step
  \/ PlugInDeviceStopStream_step

\* a handle nobody uses, while a backend is looked at on its own
DeviceAside ==
  /\ InitDevice
  /\ gen = "V1" /\ audio_supported_ = FALSE

\* ---------------------------------------------------------- hardware controls
Min(a, b) == IF a <= b THEN a ELSE b

\* the clamp as it would be with its upper limit left out
Clamp_floorOnly(lo, hi, v) == Max(lo, v)

\* std::max(lo, std::min(hi, v))
Clamp(lo, hi, v) == Max(lo, Min(hi, v))

\* arguments on both sides of every limit, and the ends of int
IntInputs == {-2147483647 - 1, -31, -30, -1, 0, 1, 6, 7, 30, 31, 50, 51,
              999, 1000, 200000, 200001, 2147483647}

ctlFixed == <<backendVars, queueVars, exportVars, raceVars, result, atClose, audio_arg, events_ok,
              identVars, handleVars,
              requested_stream_, selected_stream_, mailboxVars, sessionVars>>

\* a setter called op with argument arg that forwards value through the driver
\* call fn, unless the handle has no session
SetControl(op, arg, fn, value) ==
  /\ gen = "V1"
  /\ ctl_sends < MaxSets
  /\ lastOp' = op
  /\ ret' = TRUE
  /\ calls' = <<>>
  /\ IF dev_ = "null"
       THEN UNCHANGED ctlVars
       ELSE /\ wanted' = [op |-> op, arg |-> arg]
            /\ ctl_last' = [fn |-> fn, value |-> value]
            /\ ctl_sends' = ctl_sends + 1
  /\ UNCHANGED ctlFixed

FreenectV1Device_setTilt ==
  /\ gen = "V1"
  /\ \E angle \in IntInputs :
       SetControl("setTilt", angle, "freenect_set_tilt_degs", Clamp(-30, 30, angle))

FreenectV1Device_setLed ==
  /\ gen = "V1"
  /\ \E mode \in IntInputs :
       SetControl("setLed", mode, "freenect_set_led", Clamp(0, 6, mode))

FreenectV1Device_setManualExposureUs ==
  /\ gen = "V1"
  /\ \E value \in IntInputs :
       SetControl("setManualExposureUs", value, "freenect_set_exposure",
                  Clamp(1000, 200000, value))

\* the clamped value is cast to uint16_t
FreenectV1Device_setIrBrightness ==
  /\ gen = "V1"
  /\ \E value \in IntInputs :
       SetControl("setIrBrightness", value, "freenect_set_ir_brightness",
                  Clamp(1, 50, value) % 65536)

\* setMirror, setAutoExposure, setAutoWhiteBalance, setNearMode: each forwards
\* its flag as it is, FREENECT_ON (1) or FREENECT_OFF (0); the first two set a
\* second driver flag to the same value
FlagOf(op) ==
  CASE op = "setMirror"           -> "FREENECT_MIRROR_DEPTH"
    [] op = "setAutoExposure"     -> "FREENECT_AUTO_EXPOSURE"
    [] op = "setAutoWhiteBalance" -> "FREENECT_AUTO_WHITE_BALANCE"
    [] op = "setNearMode"         -> "FREENECT_NEAR_MODE"

FreenectV1Device_setFlag ==
  /\ gen = "V1"
  /\ \E op \in {"setMirror", "setAutoExposure", "setAutoWhiteBalance", "setNearMode"},
        enabled \in BOOLEAN :
       SetControl(op, IF enabled THEN 1 ELSE 0, FlagOf(op), IF enabled THEN 1 ELSE 0)

ControlsAside ==
  /\ wanted = [op |-> "none", arg |-> 0]
  /\ ctl_last = [fn |-> "none", value |-> 0]
  /\ ctl_sends = 0

NextControls ==
  \/ OpenHandle
  \/ FreenectV1Device_start
  \/ FreenectV1Device_stop
  \/ FreenectV1Device_setTilt
  \/ FreenectV1Device_setLed
  \/ FreenectV1Device_setManualExposureUs
  \/ FreenectV1Device_setIrBrightness
  \/ FreenectV1Device_setFlag

\* ------------------------------------------------------------- capture export
\* the frame of the control centre, row after row: the export's two nested loops
\* visit index = y * kFrameWidth + x in increasing order
kFramePixels == MaxPixels
PixelIndex == 0 .. (kFramePixels - 1)

\* depth readings on both sides of each limit of the export
DepthSamples == {0, 349, 350, 5000, 6000, 6001}

\* the test of the counting loop as it would be with the floor excluded
CountsAsValid_aboveFloor(d) == d > 350 /\ d <= 6000

\* the test of the counting loop
CountsAsValid(d) == d >= 350 /\ d <= 6000

\* the test of the writing loop (the pixel is skipped when it holds)
SkippedOnWrite(d) == d < 350 \/ d > 6000

RECURSIVE CountValid(_, _)
CountValid(buf, i) ==
  IF i = kFramePixels THEN 0
  ELSE (IF CountsAsValid(buf[i]) THEN 1 ELSE 0) + CountValid(buf, i + 1)

\* one line per pixel the writing loop keeps: its index and its z column (the
\* x and y columns come from freenect_camera_to_world, the colours from rgb)
RECURSIVE PointLines(_, _)
PointLines(buf, i) ==
  IF i = kFramePixels THEN <<>>
  ELSE (IF SkippedOnWrite(buf[i]) THEN <<>> ELSE <<[index |-> i, z |-> buf[i]]>>)
         \o PointLines(buf, i + 1)

PlyHeader(n) ==
  << <<"ply">>, <<"format ascii 1.0">>, <<"element vertex", n>>,
     <<"property float x">>, <<"property float y">>, <<"property float z">>,
     <<"property uchar red">>, <<"property uchar green">>, <<"property uchar blue">>,
     <<"end_header">> >>

\* SavePointCloudPly(path, depth, rgb); opened says whether the file could be
\* opened for writing
SavePointCloudPly ==
  \E opened_ok \in BOOLEAN :
    /\ valid_points = -1
    /\ IF g_dev = "null"
         THEN /\ valid_points' = 0
              /\ ply' = <<>>
         ELSE IF ~opened_ok
           THEN /\ valid_points' = 0
                /\ ply' = <<>>
           ELSE /\ valid_points' = CountValid(depth_mm, 0)
                /\ ply' = PlyHeader(CountValid(depth_mm, 0)) \o PointLines(depth_mm, 0)
    /\ UNCHANGED <<g_dev, depth_mm, devVars, backendVars, queueVars, raceVars, ctlVars, result,
                   g_rgb_back, g_rgb_mid, g_rgb_front, g_got_rgb, g_got_depth, g_frame_mutex,
                   g_current_video_format, g_requested_video_format, video_buf, cb_rgb,
                   assert_ok, pcDriver, pcRender>>

\* CaptureFrameBundle: the front depth buffer is copied for the next export
CaptureFrameBundle ==
  /\ valid_points /= -1
  /\ \E i \in PixelIndex, d \in DepthSamples : depth_mm' = [depth_mm EXCEPT ![i] = d]
  /\ ply' = <<>>
  /\ valid_points' = -1
  /\ UNCHANGED <<g_dev, devVars, backendVars, queueVars, raceVars, ctlVars, result,
                 g_rgb_back, g_rgb_mid, g_rgb_front, g_got_rgb, g_got_depth, g_frame_mutex,
                 g_current_video_format, g_requested_video_format, video_buf, cb_rgb,
                 assert_ok, pcDriver, pcRender>>

\* main, lines 998-1015, and freenect_threadfunc up to its loop, lines 876-893: three
\* buffers from three allocations, the back buffer given to the driver, RGB video
InitBuffers ==
  /\ g_rgb_back = "buf0" /\ g_rgb_mid = "buf1" /\ g_rgb_front = "buf2"
  /\ g_got_rgb = FALSE /\ g_got_depth = FALSE
  /\ g_frame_mutex = "free"
  /\ g_current_video_format = "RGB" /\ g_requested_video_format = "RGB"
  /\ video_buf = "buf0"
  /\ cb_rgb = "none"
  /\ assert_ok = TRUE
  /\ pcDriver = "events" /\ pcRender = "idle"

InitExport ==
  /\ g_dev \in {"null", "open"}
  /\ depth_mm \in [PixelIndex -> DepthSamples]
  /\ ply = <<>>
  /\ valid_points = -1
  /\ InitBuffers

ExportAside ==
  /\ g_dev = "null"
  /\ depth_mm = [i \in PixelIndex |-> 0]
  /\ ply = <<>>
  /\ valid_points = -1
  /\ InitBuffers

NextExport ==
  \/ SavePointCloudPly
  \/ CaptureFrameBundle

\* ------------------------------------- the colour buffers of the control centre
\* The driver thread is inside freenect_process_events_timeout ("events"), in a
\* callback it was sent to from there (cb_*, dcb_*), or at the mode check that
\* follows ("check"). The frame counters of the status line are left out.

\* the colour callback as it would be if it kept the driver on the buffer it handed in
rgb_cb_keepsBuffer ==
  /\ CASE pcDriver = "events" ->
            /\ pcDriver' = "cb_lock" /\ cb_rgb' = video_buf
            /\ UNCHANGED <<g_rgb_back, g_rgb_mid, g_got_rgb, g_frame_mutex, video_buf, assert_ok>>
       [] pcDriver = "cb_lock" ->
            /\ g_frame_mutex = "free"
            /\ g_frame_mutex' = "driver" /\ pcDriver' = "cb_body"
            /\ UNCHANGED <<g_rgb_back, g_rgb_mid, g_got_rgb, video_buf, cb_rgb, assert_ok>>
       [] pcDriver = "cb_body" ->
            /\ IF g_current_video_format \in {"RGB", "YUV_RGB"}
                 THEN /\ assert_ok' = (assert_ok /\ g_rgb_back = cb_rgb)
                      /\ g_rgb_back' = g_rgb_mid
                      /\ video_buf' = video_buf
                      /\ g_rgb_mid' = cb_rgb
                 ELSE UNCHANGED <<assert_ok, g_rgb_back, video_buf, g_rgb_mid>>
            /\ g_got_rgb' = TRUE
            /\ pcDriver' = "cb_unlock"
            /\ UNCHANGED <<g_frame_mutex, cb_rgb>>
       [] pcDriver = "cb_unlock" ->
            /\ g_frame_mutex' = "free" /\ pcDriver' = "events" /\ cb_rgb' = "none"
            /\ UNCHANGED <<g_rgb_back, g_rgb_mid, g_got_rgb, video_buf, assert_ok>>
       [] OTHER -> FALSE
  /\ UNCHANGED <<g_rgb_front, g_got_depth, g_current_video_format, g_requested_video_format,
                 pcRender, g_dev, depth_mm, ply, valid_points,
                 devVars, backendVars, queueVars, raceVars, ctlVars, result>>

\* rgb_cb, lines 815-831, one statement at a time: the driver calls it with the
\* buffer it was given last; under the frame mutex the back buffer becomes the old
\* mid buffer and is given to the driver, the buffer handed in becomes the mid
\* buffer (other formats: its bytes are copied into the mid buffer)
rgb_cb ==
  /\ CASE pcDriver = "events" ->
            /\ pcDriver' = "cb_lock" /\ cb_rgb' = video_buf
            /\ UNCHANGED <<g_rgb_back, g_rgb_mid, g_got_rgb, g_frame_mutex, video_buf, assert_ok>>
       [] pcDriver = "cb_lock" ->
            /\ g_frame_mutex = "free"
            /\ g_frame_mutex' = "driver" /\ pcDriver' = "cb_body"
            /\ UNCHANGED <<g_rgb_back, g_rgb_mid, g_got_rgb, video_buf, cb_rgb, assert_ok>>
       [] pcDriver = "cb_body" ->
            /\ IF g_current_video_format \in {"RGB", "YUV_RGB"}
                 THEN /\ assert_ok' = (assert_ok /\ g_rgb_back = cb_rgb)
                      /\ g_rgb_back' = g_rgb_mid
                      /\ video_buf' = g_rgb_mid
                      /\ g_rgb_mid' = cb_rgb
                 ELSE UNCHANGED <<assert_ok, g_rgb_back, video_buf, g_rgb_mid>>
            /\ g_got_rgb' = TRUE
            /\ pcDriver' = "cb_unlock"
            /\ UNCHANGED <<g_frame_mutex, cb_rgb>>
       [] pcDriver = "cb_unlock" ->
            /\ g_frame_mutex' = "free" /\ pcDriver' = "events" /\ cb_rgb' = "none"
            /\ UNCHANGED <<g_rgb_back, g_rgb_mid, g_got_rgb, video_buf, assert_ok>>
       [] OTHER -> FALSE
  /\ UNCHANGED <<g_rgb_front, g_got_depth, g_current_video_format, g_requested_video_format,
                 pcRender, g_dev, depth_mm, ply, valid_points,
                 devVars, backendVars, queueVars, raceVars, ctlVars, result>>

\* depth_cb, lines 801-813: the depth frame is copied into the mid depth buffer
depth_cb ==
  /\ CASE pcDriver = "events" ->
            /\ pcDriver' = "dcb_lock"
            /\ UNCHANGED <<g_got_depth, g_frame_mutex>>
       [] pcDriver = "dcb_lock" ->
            /\ g_frame_mutex = "free"
            /\ g_frame_mutex' = "driver" /\ pcDriver' = "dcb_body"
            /\ UNCHANGED g_got_depth
       [] pcDriver = "dcb_body" ->
            /\ g_got_depth' = TRUE
            /\ g_frame_mutex' = "free" /\ pcDriver' = "events"
       [] OTHER -> FALSE
  /\ UNCHANGED <<g_rgb_back, g_rgb_mid, g_rgb_front, g_got_rgb, g_current_video_format,
                 g_requested_video_format, video_buf, cb_rgb, assert_ok, pcRender,
                 g_dev, depth_mm, ply, valid_points,
                 devVars, backendVars, queueVars, raceVars, ctlVars, result>>

\* freenect_threadfunc, lines 913-937: event processing returns, and a requested
\* video format that differs from the current one is switched to. The video stream
\* is stopped, the mode set when it is valid (the request withdrawn when not), the
\* back buffer given to the driver again and the stream started.
freenect_threadfunc ==
  /\ CASE pcDriver = "events" ->
            /\ pcDriver' = "check"
            /\ UNCHANGED <<g_current_video_format, g_requested_video_format, video_buf>>
       [] pcDriver = "check" ->
            /\ pcDriver' = "events"
            /\ IF g_requested_video_format /= g_current_video_format
                 THEN /\ \E is_valid \in BOOLEAN :
                           IF is_valid
                             THEN /\ g_current_video_format' = g_requested_video_format
                                  /\ UNCHANGED g_requested_video_format
                             ELSE /\ g_requested_video_format' = g_current_video_format
                                  /\ UNCHANGED g_current_video_format
                      /\ video_buf' = g_rgb_back
                 ELSE UNCHANGED <<g_current_video_format, g_requested_video_format, video_buf>>
       [] OTHER -> FALSE
  /\ UNCHANGED <<g_rgb_back, g_rgb_mid, g_rgb_front, g_got_rgb, g_got_depth, g_frame_mutex,
                 cb_rgb, assert_ok, pcRender, g_dev, depth_mm, ply, valid_points,
                 devVars, backendVars, queueVars, raceVars, ctlVars, result>>

\* DrawGLScene, lines 526-541, one statement at a time: under the frame mutex it
\* waits for a frame of either kind (the wait lets go of the mutex and takes it
\* again, and may wake for no reason), then swaps front and mid of what arrived
DrawGLScene ==
  /\ CASE pcRender = "idle" ->
            /\ g_frame_mutex = "free"
            /\ g_frame_mutex' = "render" /\ pcRender' = "while"
            /\ UNCHANGED <<g_rgb_mid, g_rgb_front, g_got_rgb, g_got_depth>>
       [] pcRender = "while" ->
            /\ IF ~g_got_depth /\ ~g_got_rgb
                 THEN g_frame_mutex' = "free" /\ pcRender' = "cond_wait"
                 ELSE pcRender' = "swap" /\ UNCHANGED g_frame_mutex
            /\ UNCHANGED <<g_rgb_mid, g_rgb_front, g_got_rgb, g_got_depth>>
       [] pcRender = "cond_wait" ->
            /\ g_frame_mutex = "free"
            /\ g_frame_mutex' = "render" /\ pcRender' = "while"
            /\ UNCHANGED <<g_rgb_mid, g_rgb_front, g_got_rgb, g_got_depth>>
       [] pcRender = "swap" ->
            /\ g_got_depth' = FALSE
            /\ IF g_got_rgb
                 THEN g_rgb_front' = g_rgb_mid /\ g_rgb_mid' = g_rgb_front
                 ELSE UNCHANGED <<g_rgb_mid, g_rgb_front>>
            /\ g_got_rgb' = FALSE
            /\ g_frame_mutex' = "free" /\ pcRender' = "idle"
       [] OTHER -> FALSE
  /\ UNCHANGED <<g_rgb_back, g_current_video_format, g_requested_video_format, video_buf,
                 cb_rgb, assert_ok, pcDriver, g_dev, depth_mm, ply, valid_points,
                 devVars, backendVars, queueVars, raceVars, ctlVars, result>>

\* keyPressed, lines 692-697: the key v, between two drawings on the render thread
keyPressed ==
  /\ pcRender = "idle"
  /\ g_requested_video_format' = IF g_requested_video_format = "RGB" THEN "YUV_RGB" ELSE "RGB"
  /\ UNCHANGED <<g_rgb_back, g_rgb_mid, g_rgb_front, g_got_rgb, g_got_depth, g_frame_mutex,
                 g_current_video_format, video_buf, cb_rgb, assert_ok, pcDriver, pcRender,
                 g_dev, depth_mm, ply, valid_points,
                 devVars, backendVars, queueVars, raceVars, ctlVars, result>>

NextBuffers ==
  \/ rgb_cb
  \/ depth_cb
  \/ freenect_threadfunc
  \/ DrawGLScene
  \/ keyPressed

InitSpecExport == InitExport /\ DeviceAside /\ BackendAside /\ InitQueue /\ RaceAside /\ ControlsAside
SpecExport == InitSpecExport /\ [][NextExport]_vars

InitSpecBackend == InitBackend /\ DeviceAside /\ InitQueue /\ ExportAside /\ RaceAside /\ ControlsAside
SpecBackend == InitSpecBackend /\ [][NextBackend]_vars

\* the queue of the DAL plug-in on its own
InitSpecQueue == InitQueue /\ DeviceAside /\ BackendAside /\ ExportAside /\ RaceAside /\ ControlsAside
SpecQueue == InitSpecQueue /\ [][NextQueue]_vars

\* the host calls StartStream and StopStream from several threads at once
SpecStreams == InitSpecQueue /\ [][NextStreams]_vars

\* the control centre's buffers, driver thread and render thread
SpecBuffers == InitSpecQueue /\ [][NextBuffers]_vars

\* The life cycle of a handle. The frames a Gen1 driver delivers are left to
\* SpecMailbox: no life-cycle operation reads or writes frame_.
NextDevice ==
  \/ OpenHandle
  \/ FreenectV1Device_start
  \/ FreenectV1Device_stop
  \/ FreenectV1Device_update
  \/ FreenectV1Device_setStreamKind
  \/ FreenectV1Device_setAudioEnabled
  \/ FreenectV2Device_start
  \/ FreenectV2Device_stop
  \/ FreenectV2Device_update
  \/ FreenectV2Device_getFrame
  \/ FreenectV2Device_setStreamKind
  \/ FreenectV1Device_destroy
  \/ FreenectV2Device_destroy
  \/ FreenectV1Backend_preview
  \/ FreenectV2Backend_preview

InitSpecDevice == InitDevice /\ BackendAside /\ InitQueue /\ ExportAside /\ RaceAside /\ ControlsAside
SpecDevice == InitSpecDevice /\ [][NextDevice]_vars

\* A streaming session: the handle is opened, started and polled while the driver
\* delivers frames. stop() and setAudioEnabled() touch neither the mailbox nor the
\* selectors and are left to SpecDevice.
NextMailbox ==
  \/ OpenHandle
  \/ FreenectV1Device_start
  \/ FreenectV1Device_update
  \/ FreenectV1Device_getFrame
  \/ FreenectV1Device_setStreamKind
  \/ OnDepthFrame
  \/ OnVideoFrame
  \/ FreenectV2Device_start
  \/ FreenectV2Device_update
  \/ FreenectV2Device_getFrame
  \/ FreenectV2Device_setStreamKind

SpecMailbox == InitSpecDevice /\ [][NextMailbox]_vars

\* the hardware controls of a Gen1 handle across its life cycle
SpecControls == InitSpecDevice /\ [][NextControls]_vars

\* stop() and update() of a Gen1 handle on two threads
SpecRace == InitSpecDevice /\ [][NextRace]_vars

\* -------------------------------------------------------------------- claims
NativeIdle == ~native.depth /\ ~native.video /\ ~native.audio
NoneActive == ~depth_started_ /\ ~video_started_ /\ ~audio_started_

\* C1: whenever start() of a Gen1 device returns failure, streaming is false and no
\* sub-stream is marked active or left running in the native driver.
C1_FailedStartLeavesOpened ==
  (gen = "V1" /\ dev_ = "open" /\ lastOp = "start" /\ ~ret)
    => (~running_ /\ NoneActive /\ NativeIdle)

C3_TakeOnEmptyReturnsNone ==
  /\ [][(lastOp' = "getFrame" /\ (drained \/ lastTok = 0)) => ~ret']_vars
  /\ [](dev_ = "open" => (IF gen = "V1" THEN ENABLED FreenectV1Device_getFrame
                                         ELSE ENABLED FreenectV2Device_getFrame))

\* a frame was delivered and taken, and the getFrame() after that returned false
C3_Witness ==
  /\ lastOp = "getFrame" /\ ~ret
  /\ lastTok > 0 /\ seqToks /= {} /\ drained
  /\ ~has_new_frame_

\* C4: the sample queue never holds more than kQueueCapacity = 8 entries. A push
\* of the producer that meets a full queue takes exactly one entry out, the oldest,
\* before it enqueues the new sample, which then is in the queue; a push that meets
\* room takes none out; the producer never waits for space: in a push it can always
\* take its next step. (The queue is full when the producer removes: the host, which
\* drains without the state mutex, has not taken an entry since the capacity check.)
C4_DropOldestAtCapacity ==
  /\ Len(items) <= kQueueCapacity
  /\ Len(push.evicted) <= 1
  /\ (push.full /\ ~push.disturbed /\ producer = "enqueue")
       => (Len(push.evicted) = 1 /\ push.evicted[1] >= 0 /\ ~push.older_left
           /\ Len(items) = kQueueCapacity - 1)
  /\ (push.full /\ push.done) => (Len(push.evicted) = 1 /\ ~push.older_left /\ push.enqueued)
  /\ (push.done /\ ~push.full) => (push.evicted = <<>> /\ push.enqueued)
  /\ (push.done /\ ~push.disturbed /\ producer = "head" /\ gProducerRunning /\ items /= <<>>)
       => push.sample \in {items[i] : i \in DOMAIN items}
  /\ producer = "evict" => ENABLED Producer_evict
  /\ producer = "enqueue" => ENABLED Producer_enqueue

\* the ninth frame met a queue holding frames 0..7: frame 0 went out, frame 8 in
C4_Witness ==
  /\ push.done /\ push.full /\ ~push.disturbed
  /\ push.sample = 8 /\ push.evicted = <<0>> /\ push.enqueued
  /\ items = <<1, 2, 3, 4, 5, 6, 7, 8>>

\* C5: after stop() on an opened device, called once or again, the call has
\* returned success, streaming is false and no sub-stream is active.
C5_StopLeavesIdle ==
  (dev_ = "open" /\ lastOp = "stop")
    => (ret /\ ~running_ /\ NoneActive /\ NativeIdle)

\* C6: Gen1 listDevices(), 4 attempts 80 ms apart. If the enumerator returns no
\* devices on attempts 1..k-1 and a non-empty list on attempt k (k in 1..4), then
\* listDevices() returns that list, one descriptor per unit in its order with the
\* unit's serial, and has slept exactly k-1 times.
C6_ListRetriesUntilFound ==
  (backend = "V1" /\ bop = "listDevices" /\ Len(listed) \in 1..4
     /\ (\A i \in 1..(Len(listed) - 1) : listed[i].count <= 0)
     /\ listed[Len(listed)].count > 0)
    => LET attrs == listed[Len(listed)].attrs IN
       /\ devices /= <<>>
       /\ Len(devices) = Len(attrs)
       /\ \A i \in DOMAIN attrs :
            /\ devices[i].generation = "kV1"
            /\ camera_serial(attrs[i]) /= <<>> => devices[i].serial = camera_serial(attrs[i])
       /\ sleeps = Len(listed) - 1
       /\ counted = <<>>

\* nothing three times, then two units: both are returned after three sleeps
C6_Witness ==
  /\ backend = "V1" /\ bop = "listDevices"
  /\ Len(listed) = 4
  /\ \A i \in 1..3 : listed[i].count = 0
  /\ listed[4].count = 2
  /\ Len(devices) = 2 /\ devices[1].serial = <<"A">> /\ devices[2].serial = <<"B">>
  /\ sleeps = 3

\* C7: a selector switch on a streaming Gen1 device touches the video stream
\* only. update() issues no depth and no audio call, and over a session that
\* start() opened the native depth start ran exactly once, the native depth stop
\* not before stop() and then exactly once.
C7_SwitchRestartsVideoOnly ==
  gen = "V1" =>
    /\ lastOp = "update" =>
         \A i \in 1..Len(calls) :
           calls[i] \in {"stop_video", "set_video_mode", "start_video", "process_events"}
    /\ lastOp = "setStreamKind" => calls = <<>>
    /\ running_ => (startedOk /\ depthStarts = 1 /\ depthStops = 0 /\ native.depth)
    /\ (startedOk /\ ~running_) => (depthStarts = 1 /\ depthStops = 1 /\ ~native.depth)

\* update() has just switched a streaming device with audio on from colour to infrared
C7_Witness ==
  /\ gen = "V1" /\ lastOp = "update" /\ running_
  /\ active_stream_ = "kIr" /\ native.fmt = "IR_8BIT"
  /\ calls = <<"stop_video", "set_video_mode", "start_video", "process_events">>
  /\ audio_started_ /\ native.audio
  /\ depthStarts = 1 /\ depthStops = 0

\* C8: openDevice(id) with a real serial (not empty, not positional) never returns
\* a handle to a unit whose serial is not id.
C8_RealSerialOpensThatUnit ==
  (bop = "openDevice" /\ ~opening /\ opened.dev /= "null"
     /\ id /= <<>> /\ ~IsSyntheticIndexSerial(id))
    => (IF backend = "V1" THEN camera_serial(opened.dev) ELSE <<opened.dev>>) = id

\* C9: probe() on a backend whose native context initialized, with every
\* enumeration answering zero devices, reports available = true.
C9_ZeroDevicesStillAvailable ==
  (bop = "probe" /\ ctx_ = "ok" /\ counted /= <<>> /\ \A i \in DOMAIN counted : counted[i] = 0)
    => probe_result.available

\* C10: listDevices() on a backend whose native context initialized returns an
\* empty list only after more than one enumeration: a single empty enumeration
\* never produces an empty listing.
C10_EmptyOnlyAfterRetries ==
  (bop = "listDevices" /\ ctx_ = "ok" /\ devices = <<>>) => Len(listed) >= 2

\* C11: when preview() returns no device is left open, and a session it opened
\* has been closed with none of its streams still running in the driver.
C11_PreviewLeavesNothingOpen ==
  lastOp = "preview"
    => /\ dev_ = "null"
       /\ \A i \in DOMAIN calls :
            calls[i] \in {"open_device", "openDevice"}
              => \E j \in DOMAIN calls : j > i /\ calls[j] \in {"close_device", "close"}
       /\ calls /= <<>> => atClose = {}

\* C14: whenever the native session of a device is closed, no sub-stream of the
\* device is still running in the native driver.
C14_ClosedOnlyWhenIdle ==
  lastOp \in {"destroy", "preview"} => atClose = {}

\* C12: a written point list holds exactly one point line for each depth index
\* whose value d satisfies 350 <= d <= 6000 and none for any other index, and
\* the vertex count of its header equals the number of point lines.
PlyPoints == SubSeq(ply, Len(PlyHeader(0)) + 1, Len(ply))
C12_OnePointPerValidDepth ==
  ply /= <<>>
    => /\ \A i \in PixelIndex :
            Cardinality({k \in DOMAIN PlyPoints : PlyPoints[k].index = i})
              = IF 350 <= depth_mm[i] /\ depth_mm[i] <= 6000 THEN 1 ELSE 0
       /\ ply[3] = <<"element vertex", Len(PlyPoints)>>
       /\ valid_points = Len(PlyPoints)
C12_Witness ==
  /\ ply /= <<>>
  /\ depth_mm[0] = 0 /\ depth_mm[1] = 5000
  /\ \A k \in DOMAIN PlyPoints : PlyPoints[k].index /= 0
  /\ \E k \in DOMAIN PlyPoints : PlyPoints[k].index = 1
  /\ \E i \in PixelIndex : depth_mm[i] = 350

\* C13: on a Gen1 device whose start() succeeded, once stop() and an update()
\* that ran beside it on another thread have both returned, streaming is false,
\* no sub-stream is marked active and none runs in the driver.
C13_StopWinsOverUpdate ==
  (gen = "V1" /\ startedOk /\ pcStop = "done" /\ pcUpdate = "done")
    => ~running_ /\ NoneActive /\ NativeIdle

\* C15: the value a Gen1 hardware-control setter forwards to the driver is its
\* argument clamped to the device range (tilt [-30, 30], LED [0, 6], manual
\* exposure [1000, 200000], IR brightness [1, 50]), streaming or not.
Clamped(lo, hi, v) == IF v < lo THEN lo ELSE IF v > hi THEN hi ELSE v
C15_SettersForwardClamped ==
  /\ (lastOp = "setTilt" /\ dev_ = "open")
       => ctl_last = [fn |-> "freenect_set_tilt_degs", value |-> Clamped(-30, 30, wanted.arg)]
  /\ (lastOp = "setLed" /\ dev_ = "open")
       => ctl_last = [fn |-> "freenect_set_led", value |-> Clamped(0, 6, wanted.arg)]
  /\ (lastOp = "setManualExposureUs" /\ dev_ = "open")
       => ctl_last = [fn |-> "freenect_set_exposure",
                      value |-> Clamped(1000, 200000, wanted.arg)]
  /\ (lastOp = "setIrBrightness" /\ dev_ = "open")
       => ctl_last = [fn |-> "freenect_set_ir_brightness", value |-> Clamped(1, 50, wanted.arg)]
  /\ ctl_last.fn = "freenect_set_tilt_degs" => ctl_last.value \in -30 .. 30
  /\ ctl_last.fn = "freenect_set_led" => ctl_last.value \in 0 .. 6
  /\ ctl_last.fn = "freenect_set_exposure" => ctl_last.value \in 1000 .. 200000
  /\ ctl_last.fn = "freenect_set_ir_brightness" => ctl_last.value \in 1 .. 50
C15_Witness ==
  /\ lastOp = "setTilt" /\ running_ /\ wanted.arg = 31
  /\ ctl_last = [fn |-> "freenect_set_tilt_degs", value |-> 30]

\* C16: a hardware-control value set on a handle is sent to the driver again
\* when the handle is restarted: a start() that succeeds after an earlier
\* session of the handle forwards the value last set.
C16_ReappliedOnRestart ==
  [][(gen = "V1" /\ wanted.op /= "none" /\ startedOk /\ ~running_
        /\ lastOp' = "start" /\ running_')
       => (ctl_sends' > ctl_sends /\ ctl_last' = ctl_last)]_vars

\* C17: on a Gen1 device without audio firmware setAudioEnabled(true) never
\* starts the audio sub-stream and audioEnabled() is always false, while the
\* request itself is recorded as requested; audio runs only on a device with
\* audio firmware.
C17_NoFirmwareRecordsRequest ==
  /\ (gen = "V1" /\ ~audio_supported_)
       => /\ ~audio_started_ /\ ~native.audio
          /\ ~(audio_enabled_ /\ audio_started_)
          /\ lastOp = "setAudioEnabled" => audio_enabled_ = audio_arg
  /\ native.audio => audio_supported_

\* C18: start() on a handle that is already streaming returns success, issues
\* no native driver call and changes no field of the handle: the streaming
\* flag, the sub-stream flags, the selectors and the mailbox stay as they were.
C18_StartWhileStreamingIsNoOp ==
  [][(lastOp' = "start" /\ dev_ = "open" /\ running_)
       => (/\ ret'
           /\ calls' = <<>>
           /\ UNCHANGED <<handleVars, requested_stream_, selected_stream_,
                          frame_, has_new_frame_>>)]_vars
\* start() answered on a streaming Gen1 handle whose mailbox holds a frame
C18_Witness ==
  /\ gen = "V1" /\ lastOp = "start" /\ ret /\ running_ /\ calls = <<>>
  /\ has_new_frame_ /\ frame_.timestamp /= 0

\* C19: stop() on a streaming Gen1 handle issues a native stop for exactly the
\* sub-streams that are active, audio first, then video, then depth.
ActiveStops ==
  (IF audio_started_ THEN <<"stop_audio">> ELSE <<>>)
    \o (IF video_started_ THEN <<"stop_video">> ELSE <<>>)
    \o (IF depth_started_ THEN <<"stop_depth">> ELSE <<>>)
C19_StopOrderAudioVideoDepth ==
  [][(gen = "V1" /\ lastOp' = "stop" /\ dev_ = "open" /\ running_)
       => calls' = ActiveStops]_vars
\* a stop() that tore down all three sub-streams
C19_Witness ==
  /\ gen = "V1" /\ lastOp = "stop" /\ ret /\ ~running_
  /\ calls = <<"stop_audio", "stop_video", "stop_depth">>
  /\ NativeIdle

\* C20 as claimed: of two successive successful getFrame() calls the later one
\* returns, for each kind of data both carry, data produced after that of the
\* earlier one: order is never reversed and nothing is delivered twice.
FrameKinds == {"rgb", "depth", "ir"}
C21_RejectedSwitchKeepsVideo ==
  [][(gen = "V1" /\ lastOp' = "update" /\ running_ /\ video_started_ /\ native.video
        /\ requested_stream_ /= active_stream_ /\ active_stream_' /= requested_stream_)
       => (/\ video_started_' /\ native'.video
           /\ native'.fmt = native.fmt
           /\ active_stream_' = active_stream_)]_vars

\* C22: a poll of a streaming handle whose native event processing fails
\* returns false, this one and every later one, and update() does not
\* reconnect: it does not close, reopen or restart the device, and the
\* streaming flag stays set.
C22_LostSessionOnlyReported ==
  [][(lastOp' = "update" /\ dev_ = "open" /\ running_ /\ ~events_ok')
       => (/\ ~ret'
           /\ running_' /\ dev_' = "open"
           /\ \A i \in DOMAIN calls' :
                calls'[i] \notin {"open_device", "close_device", "openDevice", "close",
                                  "dev_start", "dev_stop", "set_depth_mode", "start_depth",
                                  "stop_depth", "start_audio", "stop_audio"}
           /\ UNCHANGED <<depth_started_, audio_started_, frame_, has_new_frame_>>)]_vars
\* a failing poll of a streaming Gen1 handle whose mailbox holds a fresh frame
C22_Witness ==
  /\ gen = "V1" /\ lastOp = "update" /\ ~events_ok /\ ~ret
  /\ running_ /\ has_new_frame_ /\ calls = <<"process_events">>

\* C23: a frame returned by getFrame() of a Gen1 device that carries video data
\* has exactly one of the colour and infrared buffers populated, never both,
\* whatever selector changes and video callbacks came before.
C23_ExactlyOneOfColourAndIr ==
  (gen = "V1" /\ lastOp = "getFrame" /\ ret /\ (out_frame.rgb /= 0 \/ out_frame.ir /= 0))
    => (out_frame.rgb /= 0) /= (out_frame.ir /= 0)

\* C24: every non-empty buffer of a frame returned by a successful getFrame()
\* was written by the driver after the previous successful getFrame(): a kind
\* not produced since the last take comes back empty.
C24_TakeClearsSlot ==
  (lastOp = "getFrame" /\ ret)
    => \A b \in FrameKinds : out_frame[b] /= 0 => out_frame[b] \in seqToks

\* C25: openDevice("") means first available, for both generations: it returns
\* a handle to the lowest enumeration position that opens, and it fails only
\* when nothing is attached or every attached unit was tried and refused.
C25_EmptyIdentifierOpensFirst ==
  (bop = "openDevice" /\ ~opening /\ id = <<>> /\ ctx_ = "ok")
    => IF opened.dev = "null"
         THEN \A i \in DOMAIN bus :
                \E k \in DOMAIN tried : tried[k].index = i - 1 /\ tried[k].dev = "null"
         ELSE /\ opened.dev = bus[opened.index + 1]
              /\ \A j \in 0 .. (opened.index - 1) :
                   \E k \in DOMAIN tried : tried[k].index = j /\ tried[k].dev = "null"

\* C26: retries are bounded and only delay the failure. Gen1 openDevice makes
\* at most 6 outer attempts, can always take the next one, and returns a null
\* handle exactly when the 6th has failed; Gen1 listDevices against an
\* enumerator that always reports zero devices returns an empty list after 4
\* list queries and 4 count queries.
C26_RetriesBoundedFailureSame ==
  (backend = "V1" /\ ctx_ = "ok")
    => /\ outer \in 0 .. 6
       /\ opening => (outer < 6 /\ ENABLED FreenectV1Backend_openDevice_attempt)
       /\ (bop = "openDevice" /\ ~opening)
            => ((opened.dev = "null") <=> (outer = 6))
       /\ (bop = "listDevices"
             /\ (\A i \in DOMAIN listed : listed[i].count = 0)
             /\ (\A i \in DOMAIN counted : counted[i] = 0))
            => (devices = <<>> /\ Len(listed) = 4 /\ Len(counted) = 4 /\ sleeps <= 8)
\* openDevice gave up on an attached unit that refused every open
C26_Witness ==
  /\ backend = "V1" /\ bop = "openDevice" /\ ~opening
  /\ outer = 6 /\ opened.dev = "null"
  /\ bus /= <<>> /\ tried /= <<>> /\ \A k \in DOMAIN tried : tried[k].dev = "null"

\* C27: while the producer runs, every tick enqueues exactly one frame, whatever the
\* sensor delivers; on a tick where the sensor delivered no new frame, the frame
\* enqueued is the most recent sensor frame again and nothing else.
C27_OneFramePerTickLastFrameAgain ==
  /\ (push.tick >= 0 /\ push.queue_there /\ producer = "head") => (push.done /\ push.enqueued)
  /\ (push.done /\ push.enqueued /\ ~push.got /\ push.last_sensor >= 0)
       => push.shown = push.last_sensor

\* C28: every write to a field of a Gen1 handle that update() or a driver callback
\* reads (here the requested and the active stream selector) is made by a thread
\* that holds frame_mutex_, the mutex of the mailbox, in every interleaving.
C28_SharedFieldsWrittenUnderMutex ==
  [][(gen = "V1" /\ dev_ = "open" /\ dev_' = "open"
        /\ (requested_stream_' /= requested_stream_ \/ active_stream_' /= active_stream_))
       => (frame_mutex_ = "update" /\ pcUpdate' /= pcUpdate)]_vars

\* C29: preview() against a driver that produced whole colour+depth pairs reports
\* as many colour frames as depth frames, neither count above the number of pairs
\* produced during the preview, and success as soon as one pair was produced.
C29_PreviewCountsPairs ==
  LET deliveries(k) == Cardinality({i \in DOMAIN result.polls : result.polls[i] \in {k, "pair"}})
      pairs == deliveries("depth")
  IN
  (lastOp = "preview" /\ result.polls /= <<>> /\ deliveries("depth") = deliveries("video"))
    => /\ result.color_frames = result.depth_frames
       /\ result.color_frames <= pairs /\ result.depth_frames <= pairs
       /\ pairs >= 1 => ret

\* C30: whenever start() of a Gen1 handle returns success, the depth sub-stream is
\* active, the video sub-stream is active in the mode of the current selector, and
\* the audio sub-stream is active if audio was enabled and the device has audio.
C30_StartEstablishesAll ==
  (gen = "V1" /\ lastOp = "start" /\ ret)
    => /\ depth_started_ /\ native.depth
       /\ video_started_ /\ native.video
       /\ active_stream_ = requested_stream_
       /\ native.fmt = (IF requested_stream_ = "kIr" THEN "IR_8BIT" ELSE "RGB")
       /\ (audio_enabled_ /\ audio_supported_) => (audio_started_ /\ native.audio)

\* C31: within one outer attempt of Gen1 openDevice the candidates are tried in a
\* fixed order: the exact serial first, and only for a real serial; then the
\* position the identifier names; then the remaining positions from 0 upwards with
\* none left out; no position is tried twice, and nothing is tried after the
\* first open that succeeds, whose unit is the handle returned.
C31_CandidateOrder ==
  [][LET real == id /= <<>> /\ ~IsSyntheticIndexSerial(id)
         log == tried'
         byIndex == SelectSeq(log, LAMBDA e : e.by = "index")
         named == IF IsSyntheticIndexSerial(id) /\ stoi(Tail(id)) >= 0
                    THEN {stoi(Tail(id))}
                  ELSE IF real
                    THEN {i - 1 : i \in {j \in DOMAIN bus : camera_serial(bus[j]) = id}}
                  ELSE {}
         \* the entries after the one the identifier names, if that one leads
         rest == IF byIndex /= <<>> /\ byIndex[1].index \in named THEN Tail(byIndex)
                 ELSE byIndex
         led == IF rest = byIndex THEN {} ELSE {byIndex[1].index}
     IN
     \* a pass of the loop of openDevice: it ends the call or begins the next pass
     (backend = "V1" /\ opening /\ (outer' /= outer \/ ~opening'))
       => /\ real => (log /= <<>> /\ log[1].by = "serial" /\ log[1].serial = id)
          /\ ~real => \A k \in DOMAIN log : log[k].by = "index"
          /\ \A k \in DOMAIN log : log[k].by = "serial" => log[k].serial = id
          /\ (IsSyntheticIndexSerial(id) /\ stoi(Tail(id)) >= 0)
               => (byIndex /= <<>> /\ byIndex[1].index = stoi(Tail(id)))
          /\ \A k, l \in DOMAIN byIndex : k /= l => byIndex[k].index /= byIndex[l].index
          /\ \A k, l \in DOMAIN rest : k < l => rest[k].index < rest[l].index
          /\ \A k \in DOMAIN rest : \A j \in 0 .. (rest[k].index - 1) :
               j \in led \/ \E l \in 1 .. (k - 1) : rest[l].index = j
          /\ \A k \in 1 .. (Len(log) - 1) : log[k].dev = "null"
          /\ IF log /= <<>> /\ log[Len(log)].dev /= "null"
               THEN ~opening' /\ opened'.dev = log[Len(log)].dev
               ELSE opened'.dev = "null"]_vars

\* serial A sat at position 1 and did not open: position 1 was tried before
\* position 0, which opened
C31_Witness ==
  /\ backend = "V1" /\ bop = "openDevice" /\ ~opening /\ id = <<"A">>
  /\ bus = <<"B", "A">>
  /\ tried /= <<>> /\ tried[1].by = "serial"
  /\ LET byIndex == SelectSeq(tried, LAMBDA e : e.by = "index") IN
     /\ Len(byIndex) = 2 /\ byIndex[1].index = 1 /\ byIndex[2].index = 0
  /\ opened.dev = "B" /\ opened.index = 0

\* C32: positional identifiers round-trip on Gen1. The identifier listDevices()
\* makes up for the unit at position i reads back as i; given to openDevice it
\* makes position i the first open attempted and causes no open by serial; and
\* if position i opens, the handle returned is the unit at position i.
C32_PositionalRoundTrip ==
  [][/\ (backend = "V1" /\ bop' = "listDevices")
          => \A k \in DOMAIN devices' :
               IsSyntheticIndexSerial(devices'[k].serial)
                 => /\ devices'[k].serial = <<"DeviceIndex-">> \o to_string(k - 1)
                    /\ stoi(Tail(devices'[k].serial)) = k - 1
     /\ \A i \in 0 .. MaxUnits :
          (backend = "V1" /\ opening /\ (outer' /= outer \/ ~opening')
             /\ id = <<"DeviceIndex-">> \o to_string(i))
            => /\ tried' /= <<>>
               /\ tried'[1].by = "index" /\ tried'[1].index = i
               /\ \A k \in DOMAIN tried' : tried'[k].by /= "serial"
               /\ tried'[1].dev /= "null"
                    => /\ ~opening' /\ Len(tried') = 1
                       /\ opened'.dev = bus[i + 1] /\ opened'.index = i]_vars

\* the unit without a readable serial sits at position 1, was listed as
\* DeviceIndex-1 and is the unit openDevice("DeviceIndex-1") returned
C32_Witness ==
  /\ backend = "V1" /\ bop = "openDevice" /\ ~opening
  /\ bus = <<"A", "X">>
  /\ FromAttributes(bus)[2].serial = id
  /\ tried = <<NativeOpen("index", <<>>, 1, "X")>>
  /\ opened = [dev |-> "X", index |-> 1, serial |-> id]

\* C33: whenever update() returned true, a getFrame() called next returns a frame;
\* update() on a device that is not streaming returns false and calls nothing of
\* the native driver.
C33_UpdateReportsFreshness ==
  [][/\ (lastOp = "update" /\ ret /\ lastOp' = "getFrame")
          => (ret' /\ \E b \in FrameKinds : out_frame'[b] /= 0)
     /\ (lastOp' = "update" /\ ~running_) => (~ret' /\ calls' = <<>>)]_vars

\* update() on a streaming device has just reported the depth frame that waits in
\* the mailbox
C33_Witness ==
  /\ lastOp = "update" /\ ret /\ running_
  /\ has_new_frame_ /\ frame_.depth /= 0

\* C34: entries leave the sample queue in the order they went in: a dequeue by the
\* host and an eviction by the producer both take the oldest entry, and the frame
\* indices the host dequeues while the producer runs are strictly increasing.
C34_OldestLeavesFirst ==
  [][/\ Len(items') = Len(items) - 1 => items' = Tail(items)
     /\ \A i, j \in DOMAIN items' : i < j => items'[i] < items'[j]
     /\ (items /= <<>> /\ Len(items') = Len(items) - 1
           /\ UNCHANGED <<gSampleQueue, gRunningClients, producer>>)
          => (push'.last_out = Head(items) /\ push.last_out < push'.last_out)]_vars

\* frame 0 was evicted by the ninth push, then the host dequeued frame 1 and frame 2
C34_Witness ==
  /\ gProducerRunning /\ push.done /\ push.evicted = <<0>>
  /\ push.last_out = 2 /\ items /= <<>> /\ items[1] = 3

\* C35: with StartStream, StopStream and Suspend called one at a time, the count
\* of running clients never drops below zero, a StopStream with no client
\* changes nothing, and between the calls the producer thread runs exactly when
\* the count is above zero.
C35_ProducerRunsIffClients ==
  [][/\ gRunningClients' >= 0
     /\ (gRunningClients' > 0) <=> gProducerRunning'
     /\ gProducerRunning' <=> (producer' /= "none")
     /\ (host_call' = "StopStream" /\ gRunningClients = 0)
          => UNCHANGED <<gSampleQueue, items, gQueueAlteredProc, gProducerRunning,
                         gRunningClients, gFrameCounter, producer, sample, device_, push>>]_vars

\* the second of two clients has stopped: the producer is gone, then a further
\* StopStream found no client
C35_Witness ==
  /\ host_call = "StopStream" /\ gRunningClients = 0
  /\ ~gProducerRunning /\ producer = "none" /\ gFrameCounter > 0

\* C36: under every interleaving of StartStream and StopStream calls made from
\* different host threads, the count of running clients never wraps below zero,
\* a running producer thread object is never overwritten, and no producer is
\* left running once every call has returned with a count of zero.
C36_ConcurrentStartStop ==
  /\ gRunningClients >= 0
  /\ producer /= "terminated"
  /\ ((\A t \in DOMAIN host : host[t].pc = "idle") /\ gRunningClients = 0)
       => (producer = "none" /\ ~gProducerRunning)

\* C37: when the last client stops (a StopStream that brings the count to zero, a
\* Suspend or a Teardown), the call returns with the producer thread terminated,
\* the sensor stopped and let go and the sample queue empty; nothing is enqueued
\* from then on until the next StartStream.
C37_LastStopLeavesNothing ==
  [][/\ (host_call' \in {"StopStream", "Suspend", "Teardown"} /\ gRunningClients' = 0)
          => (/\ producer' = "none" /\ ~gProducerRunning'
              /\ device_' = "null"
              /\ items' = <<>> /\ sample' = -1)
     /\ (gRunningClients = 0 /\ gRunningClients' = 0) => items' = <<>>]_vars

\* a session that streamed from the sensor and filled the queue was ended by Suspend
C37_Witness ==
  /\ host_call = "Suspend" /\ gRunningClients = 0
  /\ push.done /\ push.enqueued /\ push.full /\ push.last_sensor >= 0
  /\ items = <<>> /\ device_ = "null" /\ producer = "none"

\* C38: every sample the producer loop creates has exactly one owner when its tick
\* ends: it was enqueued exactly once, or (no queue, or the enqueue failed) released
\* exactly once. Every sample the eviction loop or the flush at stop takes out of
\* the queue is released exactly once. No sample leaves the queue without being
\* released or handed to the host, and none is released twice or while the queue or
\* the host still has it.
C38_EverySampleHasOneOwner ==
  [][LET own == push'.tick
         rel == push'.released
         fl == push'.flushed
         cnt(s, x) == Cardinality({i \in DOMAIN s : s[i] = x})
         Range(s) == {s[i] : i \in DOMAIN s} IN
     /\ (producer' = "head" /\ own >= 0)
          => /\ push'.created => (IF push'.enqueued THEN cnt(rel, own) = 0
                                                     ELSE cnt(rel, own) = 1)
             /\ ~push'.created => (~push'.enqueued /\ cnt(rel, own) = 0)
             /\ Range(rel) = (Range(push'.evicted) \ {-1})
                               \cup (IF push'.created /\ ~push'.enqueued THEN {own} ELSE {})
     /\ (producer = "enqueue" /\ producer' = "head")
          => IF push'.enqueued
               THEN items' = Append(items, push.tick) /\ cnt(items', push.tick) = 1
               ELSE items' = items
     /\ Len(push'.evicted) = Len(push.evicted) + 1
          => LET old == push'.evicted[Len(push'.evicted)] IN
             old >= 0 => (/\ old = Head(items) /\ items' = Tail(items)
                          /\ cnt(push.released, old) = 0 /\ cnt(rel, old) = 1)
     /\ (producer /= "none" /\ producer' = "none")
          => (fl = items /\ items' = <<>> /\ \A x \in Range(items) : cnt(fl, x) = 1)
     /\ \A x \in Range(items) \ Range(items') :
          x \in Range(rel) \cup Range(fl) \cup {push'.last_out}
     /\ \A x \in Range(rel) \cup Range(fl) :
          /\ cnt(rel, x) + cnt(fl, x) = 1
          /\ x \notin Range(items') /\ x /= push'.last_out]_vars

\* the ninth push evicted and released frame 0, later ticks were enqueued, and a
\* teardown flushed the eight samples then queued
C38_Witness ==
  /\ host_call = "Teardown" /\ producer = "none" /\ items = <<>>
  /\ push.created /\ push.enqueued /\ push.evicted = <<0>> /\ push.released = <<0>>
  /\ Len(push.flushed) = kQueueCapacity /\ push.flushed[kQueueCapacity] = push.tick

\* C39: in the control centre, however the colour callback of the driver thread, the
\* front/mid swap of the render thread and the switches of the video mode
\* interleave, back, mid and front are three different buffers, the buffer the
\* driver hands to the colour callback is the back buffer of that moment, and the
\* assertion in the callback does not fail.
C39_ThreeDistinctBuffers ==
  /\ Cardinality({g_rgb_back, g_rgb_mid, g_rgb_front}) = 3
  /\ {g_rgb_back, g_rgb_mid, g_rgb_front} = {"buf0", "buf1", "buf2"}
  /\ video_buf = g_rgb_back
  /\ pcDriver \in {"cb_lock", "cb_body"} => cb_rgb = g_rgb_back
  /\ assert_ok

\* two colour frames and a swap went by, the mode was switched, and the callback
\* is called a third time while the render thread waits for the mutex it holds
C39_Witness ==
  /\ g_current_video_format = "YUV_RGB"
  /\ g_rgb_front = "buf0" /\ g_rgb_mid = "buf1" /\ g_rgb_back = "buf2"
  /\ pcDriver = "cb_body" /\ cb_rgb = "buf2" /\ g_frame_mutex = "driver"
  /\ pcRender = "cond_wait"

\* C40: every frame a Gen2 device puts into its mailbox has exactly one populated
\* buffer and the width and height of that buffer. It is the buffer of the selected
\* stream kind when the bundle received holds a frame of that kind with pixels,
\* otherwise the first the bundle holds of colour, infrared and depth, in this
\* order; when it holds none, the mailbox stays as it was and update() returns false.
C40_Gen2StoresOneBuffer ==
  [][LET b == result'.frames
         has(k) == b[k] = "full"
         selected == CASE selected_stream_ = "kRgb" -> "Color"
                       [] selected_stream_ = "kIr" -> "Ir"
                       [] OTHER -> "Depth"
         want == IF has(selected) THEN selected
                 ELSE IF has("Color") THEN "Color"
                 ELSE IF has("Ir") THEN "Ir"
                 ELSE IF has("Depth") THEN "Depth"
                 ELSE "none"
         populated(f) == {k \in {"Color", "Ir", "Depth"} :
                            CASE k = "Color" -> f.rgb /= 0
                              [] k = "Ir" -> f.ir /= 0
                              [] OTHER -> f.depth /= 0} IN
     /\ (gen = "V2" /\ lastOp' = "update" /\ running_ /\ events_ok')
          => IF want = "none"
               THEN ~ret' /\ UNCHANGED <<frame_, has_new_frame_>>
               ELSE /\ ret' /\ has_new_frame_'
                    /\ populated(frame_') = {want}
                    /\ <<frame_'.width, frame_'.height>> =
                         IF want = "Color" THEN <<1920, 1080>> ELSE <<512, 424>>
     /\ (gen' = "V2" /\ has_new_frame_') => Cardinality(populated(frame_')) = 1]_vars

\* depth was selected, the bundle held an infrared frame and a depth frame without
\* pixels: the infrared frame is in the mailbox
C40_Witness ==
  /\ gen = "V2" /\ lastOp = "update" /\ ret /\ selected_stream_ = "kDepth"
  /\ result.frames = [Color |-> "absent", Ir |-> "full", Depth |-> "empty"]
  /\ has_new_frame_ /\ frame_.ir /= 0 /\ frame_.rgb = 0 /\ frame_.depth = 0
  /\ frame_.width = 512 /\ frame_.height = 424

====
